---------------------------- MODULE Spec2Model ----------------------------
(* A model of the megaviz-api ingestion pipeline: the transaction size     *)
(* codec (rpc/client.rs), the metrics calculator (processor/calculator.rs),*)
(* the rolling-window store (metrics/store.rs), the rolling percentile     *)
(* estimator (metrics/rolling_stats.rs) and the block poller               *)
(* (rpc/poller.rs).                                                        *)
EXTENDS Integers, Sequences, FiniteSets, TLC

(***************************************************************************)
(* Bounds of the model.  The literals 100 (poller.rs:81, poller.rs:88) and *)
(* 60_000 (store.rs:9) are scaled down so that a bounded run reaches the   *)
(* start look-back, the per-poll cap and the eviction of the store.        *)
(***************************************************************************)
MAX_BLOCKS == 2

START_LOOKBACK == 2

MAX_BLOCKS_PER_POLL == 2

MaxConfirmation == 2

MaxHead == 4

MaxBlockNumber == 3

CHANNEL_CAPACITY == 2

\* Option::None of the optional integer fields of a RawTransaction.
None == -1

DEPOSIT_TX_TYPE == 126

VARIABLES
    blocks,               \* MetricsStore.blocks: VecDeque<BlockMetrics>
    transactions,         \* MetricsStore.transactions: VecDeque<TransactionMetrics>
    last_block,           \* MetricsStore.last_block: u64
    evicted,              \* add_block: the old_block records its last call popped
    confirmation_blocks,  \* BlockPoller.confirmation_blocks
    pc,                   \* where the poller task is: "sleep", "loop", "add", "send"
    latest,               \* poll_once: the head eth_blockNumber returned in this tick
    start_block,          \* poll_once: start_block of this tick
    end_block,            \* poll_once: start_block + blocks_to_process
    block_num,            \* poll_once: the loop variable
    pending,              \* process_block: (block_metrics, tx_metrics) of the calculator
    published,            \* the events handed to block_tx.send, newest last
    not_found,            \* lowest block number logged "not found" and not inserted since
    fetch_failure,        \* the fetch that failed in the last process_block call
    poll_result,          \* what run() got from the last poll_once: "ok" or "err"
    first_tick_done,      \* history: a poll_once call got the head and chose its start
    samples,              \* RollingStats.samples: VecDeque<MetricSample>
    max_samples,          \* RollingStats.max_samples
    window_duration,      \* RollingStats.window_duration
    now,                  \* Instant::now() of the estimator's clock
    rpc_pc,               \* rpc_call: "idle", "request" (rpc_call_once next), "sleep"
    attempt,              \* rpc_call: the loop variable
    last_error,           \* rpc_call: last_error
    rpc_result,           \* what the last rpc_call returned, RpcNone before it returns
    rpc_outcomes,         \* the results of rpc_call_once in this call, in order
    rpc_delays,           \* the delays this call slept, in milliseconds, in order
    bus_log,              \* the events the broadcast channel took in, oldest first
    block_rx,             \* per connection: the position its Receiver reads next
    ws_handler,           \* per connection: handle_ws_connection: "none", "select", "returned"
    send_task,            \* per connection: the forwarder: "none", "running", "done"
    recv_task,            \* per connection: the reader: "none", "running", "done"
    socket_ok,            \* per connection: a send on the socket can still succeed
    sub_pos,              \* per connection: the channel's length when it subscribed
    delivered,            \* per connection: the events sent to the client, in order
    lag_seen,             \* per connection: block_rx.recv() has returned Lagged
    norm_args,            \* normalize_block: the six values of its last call
    normalized,           \* normalize_block: what its last call returned
    http_request,         \* the last query the HTTP server handled
    http_response,        \* what the handler of that query returned
    calc_args,            \* process_block: the transaction and receipts given
    calc_result,          \* process_block: the transaction record it returned
    lock_held,            \* each RwLock of the store: its writer and its readers
    lock_queue,           \* each RwLock of the store: the tasks waiting, in order
    w_pc,                 \* the poller task seen at the level of the locks
    w_args,               \* the block and records its add_block call was given
    r_pc,                 \* each API task in get_window_stats
    r_snap,               \* what each API task has read so far
    stable_head           \* the chain: None while its head still moves, else the
                          \* head it stays at

storeVars == <<blocks, transactions, last_block, evicted>>

pollerVars == <<confirmation_blocks, pc, latest, start_block, end_block, block_num,
                pending, published, not_found, fetch_failure, poll_result,
                first_tick_done>>

statsVars == <<samples, max_samples, window_duration, now>>

rpcVars == <<rpc_pc, attempt, last_error, rpc_result, rpc_outcomes, rpc_delays>>

connVars == <<block_rx, ws_handler, send_task, recv_task, socket_ok, sub_pos, delivered,
              lag_seen>>

wsVars == <<bus_log, connVars>>

normVars == <<norm_args, normalized>>

queryVars == <<http_request, http_response>>

calcVars == <<calc_args, calc_result>>

lockVars == <<lock_held, lock_queue, w_pc, w_args, r_pc, r_snap>>

chainVars == <<stable_head>>

vars == <<storeVars, pollerVars, statsVars, rpcVars, wsVars, normVars, queryVars, calcVars,
          lockVars, chainVars>>

(***************************************************************************)
(* Helpers on sequences and integers.                                      *)
(***************************************************************************)
Min(a, b) == IF a < b THEN a ELSE b

Max(a, b) == IF a > b THEN a ELSE b

\* u64::saturating_sub
saturating_sub(a, b) == IF a >= b THEN a - b ELSE 0

RECURSIVE SeqSum(_)
SeqSum(s) == IF s = <<>> THEN 0 ELSE Head(s) + SeqSum(Tail(s))

Last(s) == s[Len(s)]

\* The last n elements of s.
LastN(s, n) == IF Len(s) <= n THEN s ELSE SubSeq(s, Len(s) - n + 1, Len(s))

\* 64 - val.leading_zeros(): the number of significant bits of val.
RECURSIVE BitLen(_)
BitLen(v) == IF v = 0 THEN 0 ELSE 1 + BitLen(v \div 2)

(***************************************************************************)
(* Transaction size codec (rpc/client.rs).  A RawTransaction is a record   *)
(*   [hash, has_to, input_len, gas, tx_type, nonce, value, gas_price,      *)
(*    max_fee_per_gas, max_priority_fee_per_gas, chain_id, access_list]    *)
(* where input_len is input.len(), an optional integer is None when        *)
(* absent, and access_list is the sequence of the number of storage keys   *)
(* of each entry.                                                          *)
(***************************************************************************)
unwrap_or(opt, default) == IF opt = None THEN default ELSE opt

rlp_uint_size(val) ==
    IF val = 0 THEN 1
    ELSE IF val < 128 THEN 1
    ELSE 1 + (BitLen(val) + 7) \div 8

rlp_u128_size(val) ==
    IF val = 0 THEN 1
    ELSE IF val < 128 THEN 1
    ELSE 1 + (BitLen(val) + 7) \div 8

rlp_u256_size(val) ==
    IF val = 0 THEN 1
    ELSE LET significant_bytes == (BitLen(val) + 7) \div 8
         IN  IF significant_bytes = 1 /\ val < 128 THEN 1
             ELSE 1 + significant_bytes

\* rlp_length_prefix_size that counts the bytes of len - 1, which is
\* 1 + ceil(log256(len)): the variant C36 must tell from the code.
rlp_length_prefix_size_ceil_log(len) ==
    IF len < 56 THEN 1
    ELSE 1 + (BitLen(len - 1) + 7) \div 8

rlp_length_prefix_size(len) ==
    IF len < 56 THEN 1
    ELSE 1 + (BitLen(len) + 7) \div 8

access_list_size(tx) ==
    IF tx.access_list = <<>> THEN 1
    ELSE LET size == SeqSum([i \in 1..Len(tx.access_list) |->
                                21 + 1 + tx.access_list[i] * 33])
         IN  size + rlp_length_prefix_size(size)

encoded_size(tx) ==
    65
    + rlp_uint_size(tx.nonce)
    + rlp_uint_size(tx.gas)
    + (IF tx.has_to THEN 21 ELSE 1)
    + rlp_u256_size(tx.value)
    + rlp_length_prefix_size(tx.input_len) + tx.input_len
    + (CASE tx.tx_type = 0 -> rlp_u128_size(unwrap_or(tx.gas_price, 0))
         [] tx.tx_type = 1 -> rlp_u128_size(unwrap_or(tx.gas_price, 0))
                              + access_list_size(tx) + 1
         [] tx.tx_type = 2 -> rlp_u128_size(unwrap_or(tx.max_priority_fee_per_gas, 0))
                              + rlp_u128_size(unwrap_or(tx.max_fee_per_gas, 0))
                              + access_list_size(tx) + 1
         [] tx.tx_type = DEPOSIT_TX_TYPE -> 1 + 100
         [] OTHER -> rlp_u128_size(unwrap_or(tx.gas_price, 0)))
    + (IF tx.tx_type > 0 /\ tx.chain_id # None
       THEN rlp_uint_size(unwrap_or(tx.chain_id, 0)) ELSE 0)
    + 3

\* to_bytes_for_da without the final resize: the variant C37 must tell from
\* the code.
to_bytes_for_da_unpadded(tx) ==
    (IF tx.tx_type > 0 THEN 1 ELSE 0) + tx.input_len + 65

\* The length of the byte vector to_bytes_for_da builds: the type byte of a
\* typed transaction, the input, 65 signature bytes, resized up to
\* encoded_size when shorter.
to_bytes_for_da(tx) ==
    LET len == (IF tx.tx_type > 0 THEN 1 ELSE 0) + tx.input_len + 65
        target_size == encoded_size(tx)
    IN  IF len < target_size THEN target_size ELSE len

\* op_alloy_flz::flz_compress_len, an external crate: a stand-in that maps
\* the length of the (zero-filled) DA input to a compressed length.
flz_compress_len(len) == 2 + len \div 8

(***************************************************************************)
(* Metrics calculator (processor/calculator.rs).                           *)
(***************************************************************************)
RECURSIVE Pow2(_)
Pow2(e) == IF e = 0 THEN 1 ELSE 2 * Pow2(e - 1)

\* (total_gas as f64 * c) as u64 for the f64 literals c = 0.7 and c = 0.3
\* (tenths = 7, 3), for total_gas below 2^27.  The f64 nearest to 0.7 is
\* 0.7 - 0.4 * 2^-53 and the one nearest to 0.3 is 0.3 - 0.1 * 2^-53, so
\* the real product lies just below total_gas * tenths / 10.  When that
\* quotient is no integer the truncation gives its floor.  When it is an
\* integer N, the product rounds (to nearest, ties to even) to N unless
\* the shortfall exceeds half the spacing 2^(e-52) of the f64 values below
\* N, where 2^e <= N < 2^(e+1); then it rounds to the value below N and
\* the truncation gives N - 1 (21000 * 0.7 gives 14699).
F64MulTrunc(total_gas, tenths) ==
    LET exact == total_gas * tenths
        N == exact \div 10
        shortfall == IF tenths = 7 THEN 4 ELSE 1
        below == 2 * total_gas * shortfall > 10 * Pow2(BitLen(N))
    IN  IF exact % 10 = 0 /\ N > 0 /\ below THEN N - 1 ELSE N

estimate_mega_evm_metrics(total_gas, input_len) ==
    LET compute_gas == IF input_len > 4 THEN F64MulTrunc(total_gas, 7)
                       ELSE F64MulTrunc(total_gas, 3)
        kv_updates == Max(total_gas \div 20000, 1)
    IN  [compute_gas |-> compute_gas,
         data_size |-> input_len,
         kv_updates |-> kv_updates,
         state_growth |-> kv_updates \div 5]

\* receipt_map.get(&tx.hash): the receipts collected into a HashMap by hash,
\* a later receipt of the same hash replacing an earlier one.
receipt_lookup(receipts, hash) ==
    LET idx == {i \in 1..Len(receipts) : receipts[i].transaction_hash = hash}
    IN  IF idx = {} THEN None
        ELSE receipts[CHOOSE i \in idx : \A j \in idx : j <= i].gas_used

\* TxMetricsOf that takes the gas limit whether or not there is a receipt:
\* the variant C35 must tell from TxMetricsOf.
TxMetricsOf_ignores_receipt(block, receipts, tx) ==
    LET gas_used == receipt_lookup(receipts, tx.hash)
        total_gas == tx.gas
        is_deposit == tx.tx_type = DEPOSIT_TX_TYPE
        da_size == IF is_deposit THEN 0 ELSE flz_compress_len(to_bytes_for_da(tx))
        est == estimate_mega_evm_metrics(total_gas, tx.input_len)
    IN  [tx_hash |-> tx.hash,
         block_number |-> block.number,
         timestamp |-> block.timestamp,
         total_gas |-> total_gas,
         compute_gas |-> est.compute_gas,
         storage_gas |-> saturating_sub(total_gas, est.compute_gas),
         tx_size |-> encoded_size(tx),
         da_size |-> da_size,
         data_size |-> est.data_size,
         kv_updates |-> est.kv_updates,
         state_growth |-> est.state_growth]

\* TxMetricsOf with storage_gas taken from the gas limit of the transaction
\* and not from the gas used: the variant C23 must tell from TxMetricsOf.
TxMetricsOf_gas_limit_split(block, receipts, tx) ==
    LET gas_used == receipt_lookup(receipts, tx.hash)
        total_gas == IF gas_used = None THEN tx.gas ELSE gas_used
        is_deposit == tx.tx_type = DEPOSIT_TX_TYPE
        da_size == IF is_deposit THEN 0 ELSE flz_compress_len(to_bytes_for_da(tx))
        est == estimate_mega_evm_metrics(total_gas, tx.input_len)
    IN  [tx_hash |-> tx.hash,
         block_number |-> block.number,
         timestamp |-> block.timestamp,
         total_gas |-> total_gas,
         compute_gas |-> est.compute_gas,
         storage_gas |-> saturating_sub(tx.gas, est.compute_gas),
         tx_size |-> encoded_size(tx),
         da_size |-> da_size,
         data_size |-> est.data_size,
         kv_updates |-> est.kv_updates,
         state_growth |-> est.state_growth]

\* TxMetricsOf without the exemption of deposits from DA: the variant C24
\* must tell from TxMetricsOf.
TxMetricsOf_deposit_in_da(block, receipts, tx) ==
    LET gas_used == receipt_lookup(receipts, tx.hash)
        total_gas == IF gas_used = None THEN tx.gas ELSE gas_used
        is_deposit == tx.tx_type = DEPOSIT_TX_TYPE
        da_size == flz_compress_len(to_bytes_for_da(tx))
        est == estimate_mega_evm_metrics(total_gas, tx.input_len)
    IN  [tx_hash |-> tx.hash,
         block_number |-> block.number,
         timestamp |-> block.timestamp,
         total_gas |-> total_gas,
         compute_gas |-> est.compute_gas,
         storage_gas |-> saturating_sub(total_gas, est.compute_gas),
         tx_size |-> encoded_size(tx),
         da_size |-> da_size,
         data_size |-> est.data_size,
         kv_updates |-> est.kv_updates,
         state_growth |-> est.state_growth]

\* One round of the loop of process_block, lines 46-86: the record of tx.
TxMetricsOf(block, receipts, tx) ==
    LET gas_used == receipt_lookup(receipts, tx.hash)
        total_gas == IF gas_used = None THEN tx.gas ELSE gas_used
        is_deposit == tx.tx_type = DEPOSIT_TX_TYPE
        da_size == IF is_deposit THEN 0 ELSE flz_compress_len(to_bytes_for_da(tx))
        est == estimate_mega_evm_metrics(total_gas, tx.input_len)
    IN  [tx_hash |-> tx.hash,
         block_number |-> block.number,
         timestamp |-> block.timestamp,
         total_gas |-> total_gas,
         compute_gas |-> est.compute_gas,
         storage_gas |-> saturating_sub(total_gas, est.compute_gas),
         tx_size |-> encoded_size(tx),
         da_size |-> da_size,
         data_size |-> est.data_size,
         kv_updates |-> est.kv_updates,
         state_growth |-> est.state_growth]

\* MetricsCalculator::process_block: (block_metrics, tx_metrics).
process_block_metrics(block, receipts) ==
    LET tx_metrics == [i \in 1..Len(block.transactions) |->
                          TxMetricsOf(block, receipts, block.transactions[i])]
        Sum(field) == SeqSum([i \in 1..Len(tx_metrics) |-> tx_metrics[i][field]])
    IN  [block |-> [block_number |-> block.number,
                    timestamp |-> block.timestamp,
                    tx_count |-> Len(tx_metrics),
                    total_gas |-> Sum("total_gas"),
                    compute_gas |-> Sum("compute_gas"),
                    storage_gas |-> Sum("storage_gas"),
                    tx_size |-> Sum("tx_size"),
                    da_size |-> Sum("da_size"),
                    data_size |-> Sum("data_size"),
                    kv_updates |-> Sum("kv_updates"),
                    state_growth |-> Sum("state_growth"),
                    gas_limit |-> block.gas_limit],
         txs |-> tx_metrics]

\* process_block was not called.
CalcIdle ==
    /\ calc_args = [called |-> FALSE]
    /\ calc_result = [returned |-> FALSE]

\* A call of process_block on the block the arguments hold and the receipts
\* fetched for it.
Calculate ==
    /\ calc_args.called
    /\ ~calc_result.returned
    /\ LET block == [number |-> 1, timestamp |-> 1, gas_limit |-> 30000000,
                     transactions |-> calc_args.txs]
           out == process_block_metrics(block, calc_args.receipts)
       IN  calc_result' = [returned |-> TRUE, block |-> out.block, txs |-> out.txs]
    /\ UNCHANGED <<chainVars, lockVars, calc_args, queryVars, normVars, storeVars, pollerVars, statsVars,
                   rpcVars, wsVars>>

(***************************************************************************)
(* The blocks the RPC endpoint serves.  eth_getBlockByNumber(n) answers    *)
(* with block n (number = n, timestamp = n seconds after genesis); what    *)
(* varies is the transactions in it: none, or a transfer whose receipt is  *)
(* missing followed by a contract call with its receipt.                   *)
(***************************************************************************)
BlockKinds == {"empty", "mixed"}

TransferTx(n) ==
    [hash |-> 10 * n + 1, has_to |-> TRUE, input_len |-> 0, gas |-> 21000,
     tx_type |-> 0, nonce |-> 3, value |-> 1000000, gas_price |-> 1000000000,
     max_fee_per_gas |-> None, max_priority_fee_per_gas |-> None,
     chain_id |-> None, access_list |-> <<>>]

CallTx(n) ==
    [hash |-> 10 * n + 2, has_to |-> TRUE, input_len |-> 36, gas |-> 100000,
     tx_type |-> 2, nonce |-> 200, value |-> 0, gas_price |-> None,
     max_fee_per_gas |-> 2000000000, max_priority_fee_per_gas |-> 100,
     chain_id |-> 6342, access_list |-> <<1>>]

RawBlockOf(n, kind) ==
    [number |-> n, timestamp |-> n, gas_limit |-> 30000000,
     transactions |-> IF kind = "empty" THEN <<>> ELSE <<TransferTx(n), CallTx(n)>>]

RawReceiptsOf(n, kind) ==
    IF kind = "empty" THEN <<>>
    ELSE <<[transaction_hash |-> 10 * n + 2, gas_used |-> 60000]>>

(***************************************************************************)
(* Rolling-window store (metrics/store.rs).                                *)
(***************************************************************************)
\* while transactions.front().map(|t| t.block_number) == Some(old) { pop_front }
RECURSIVE pop_front_txs(_, _)
pop_front_txs(txs, old_block_number) ==
    IF txs # <<>> /\ Head(txs).block_number = old_block_number
    THEN pop_front_txs(Tail(txs), old_block_number)
    ELSE txs

\* trim with its bound off by one (>= for >, one record too many kept): the
\* variant C5 must tell from trim.
RECURSIVE trim_off_by_one(_, _, _)
trim_off_by_one(bs, txs, old) ==
    IF Len(bs) > MAX_BLOCKS + 1
    THEN trim_off_by_one(Tail(bs), pop_front_txs(txs, Head(bs).block_number),
                         Append(old, Head(bs)))
    ELSE [blocks |-> bs, transactions |-> txs, evicted |-> old]

\* while blocks.len() > MAX_BLOCKS { pop_front ... }: the store after the
\* loop and the old_block records it popped.
RECURSIVE trim(_, _, _)
trim(bs, txs, old) ==
    IF Len(bs) > MAX_BLOCKS
    THEN trim(Tail(bs), pop_front_txs(txs, Head(bs).block_number), Append(old, Head(bs)))
    ELSE [blocks |-> bs, transactions |-> txs, evicted |-> old]

\* MetricsStore::add_block: the store after the call.
add_block(block, txs) ==
    LET trimmed == trim(Append(blocks, block), transactions \o txs, <<>>)
    IN  [blocks |-> trimmed.blocks,
         transactions |-> trimmed.transactions,
         last_block |-> block.block_number,
         evicted |-> trimmed.evicted]

\* MetricsStore::last_block_number
last_block_number == last_block

\* MetricsStore::get_block: the first retained block of that number in a
\* sequence of one, or the empty sequence for None.
get_block(block_number) ==
    LET matching == SelectSeq(blocks, LAMBDA b : b.block_number = block_number)
    IN  IF matching = <<>> THEN <<>> ELSE <<Head(matching)>>

\* MetricsStore::new
StoreInit ==
    /\ blocks = <<>>
    /\ transactions = <<>>
    /\ last_block = 0
    /\ evicted = <<>>

\* A call of add_block on the store.
StoreAddBlock(block, txs) ==
    LET after == add_block(block, txs)
    IN  /\ blocks' = after.blocks
        /\ transactions' = after.transactions
        /\ last_block' = after.last_block
        /\ evicted' = after.evicted

(***************************************************************************)
(* Block poller (rpc/poller.rs).  The poller task is at one of             *)
(*   "sleep": run() awaits poll_timer.tick()                               *)
(*   "loop" : poll_once is about to call process_block(block_num)          *)
(*   "add"  : process_block has the calculator's output, before add_block  *)
(*   "send" : process_block is past add_block, before block_tx.send        *)
(***************************************************************************)
NoFailure == [kind |-> "none", n |-> 0]

PollerInit ==
    /\ stable_head = None
    /\ confirmation_blocks \in 0..MaxConfirmation
    /\ pc = "sleep"
    /\ latest = 0
    /\ start_block = 0
    /\ end_block = 0
    /\ block_num = 0
    /\ pending = <<>>
    /\ published = <<>>
    /\ not_found = None
    /\ fetch_failure = NoFailure
    /\ poll_result = "none"
    /\ first_tick_done = FALSE

\* poll_once, line 73.
TargetOf(head) == saturating_sub(head, confirmation_blocks)

\* StartBlockOf that starts every tick START_LOOKBACK blocks under the
\* target: the variant C40 must tell from StartBlockOf.
StartBlockOf_from_target(target) == saturating_sub(target, START_LOOKBACK)

\* poll_once, lines 76-84.
StartBlockOf(target) ==
    LET last_processed == last_block_number
    IN  IF last_processed = 0 THEN saturating_sub(target, START_LOOKBACK)
        ELSE last_processed + 1

\* BlocksToProcess without the cap of line 88: the variant C30 must tell
\* from BlocksToProcess.
BlocksToProcess_uncapped(start, target) == target - start + 1

\* poll_once, line 88.
BlocksToProcess(start, target) == Min(target - start + 1, MAX_BLOCKS_PER_POLL)

\* The for loop of poll_once moves to the next block number, or poll_once
\* returns Ok(()) and run() awaits the next tick.
LoopNext ==
    /\ block_num' = block_num + 1
    /\ IF block_num + 1 < end_block
       THEN pc' = "loop" /\ poll_result' = poll_result
       ELSE pc' = "sleep" /\ poll_result' = "ok"

\* PollFailed that also forgets the last processed block: the variant C32
\* must tell from PollFailed.
PollFailed_forgets ==
    /\ pc = "sleep"
    /\ poll_result' = "err"
    /\ last_block' = 0
    /\ UNCHANGED <<chainVars, lockVars, calcVars, queryVars, normVars, statsVars, rpcVars, wsVars, blocks,
                   transactions, evicted, confirmation_blocks, first_tick_done, pc, latest,
                   start_block, end_block, block_num, pending, published, not_found,
                   fetch_failure>>

\* A tick in which eth_blockNumber fails: poll_once returns the error and
\* run() logs it.
PollFailed ==
    /\ pc = "sleep"
    /\ poll_result' = "err"
    /\ UNCHANGED <<chainVars, lockVars, calcVars, queryVars, normVars, storeVars, statsVars, rpcVars, wsVars, confirmation_blocks, first_tick_done, pc, latest, start_block,
                   end_block, block_num, pending, published, not_found, fetch_failure>>

\* A tick in which eth_blockNumber returns head: poll_once up to its loop.
PollOnce(head) ==
    LET target == TargetOf(head)
        start == StartBlockOf(target)
    IN  /\ pc = "sleep"
        /\ latest' = head
        /\ first_tick_done' = TRUE
        /\ start_block' = start
        /\ block_num' = start
        /\ IF start <= target
           THEN /\ end_block' = start + BlocksToProcess(start, target)
                /\ pc' = "loop"
                /\ poll_result' = poll_result
           ELSE /\ end_block' = start
                /\ pc' = "sleep"
                /\ poll_result' = "ok"
        /\ UNCHANGED <<chainVars, lockVars, calcVars, queryVars, normVars, storeVars, statsVars, rpcVars, wsVars, confirmation_blocks, pending, published,
                       not_found, fetch_failure>>

\* process_block, lines 107-139: the block and its receipts arrive and the
\* calculator runs.
FetchBlock(kind) ==
    /\ pc = "loop"
    /\ pending' = <<process_block_metrics(RawBlockOf(block_num, kind),
                                          RawReceiptsOf(block_num, kind))>>
    /\ fetch_failure' = NoFailure
    /\ pc' = "add"
    /\ UNCHANGED <<chainVars, lockVars, calcVars, queryVars, normVars, storeVars, statsVars, rpcVars, wsVars, confirmation_blocks, first_tick_done, latest, start_block,
                   end_block, block_num, published, not_found, poll_result>>

\* process_block, lines 112-118: the block is null; process_block warns and
\* returns Ok(()) without looking at receipts_result (a failure of the
\* receipts fetch is dropped), and the loop goes on.
FetchNotFound(receipts_ok) ==
    /\ pc = "loop"
    /\ not_found' = IF not_found = None THEN block_num ELSE Min(not_found, block_num)
    /\ fetch_failure' = IF receipts_ok THEN NoFailure
                        ELSE [kind |-> "receipts_dropped", n |-> block_num]
    /\ LoopNext
    /\ UNCHANGED <<chainVars, lockVars, calcVars, queryVars, normVars, storeVars, statsVars, rpcVars, wsVars, confirmation_blocks, first_tick_done, latest, start_block,
                   end_block, pending, published>>

\* process_block, lines 112 and 120: get_block fails ("transport": rpc_call
\* gave up; "malformed": the response does not parse into a block) or
\* get_block_receipts fails ("receipts"); the error leaves poll_once and
\* run() logs it.
FetchFailed(kind) ==
    /\ pc = "loop"
    /\ fetch_failure' = [kind |-> kind, n |-> block_num]
    /\ pc' = "sleep"
    /\ poll_result' = "err"
    /\ UNCHANGED <<chainVars, lockVars, calcVars, queryVars, normVars, storeVars, statsVars, rpcVars, wsVars, confirmation_blocks, first_tick_done, latest, start_block,
                   end_block, block_num, pending, published, not_found>>

\* process_block with the event sent before the store has the block (lines
\* 142 and 145 swapped): the variant C10 must tell from AddBlock.
AddBlock_SendFirst ==
    /\ pc = "add"
    /\ pc' = "send"
    /\ UNCHANGED <<chainVars, lockVars, calcVars, queryVars, normVars, storeVars, statsVars, rpcVars, wsVars, confirmation_blocks, first_tick_done, latest, start_block,
                   end_block, block_num, pending, published, not_found, fetch_failure,
                   poll_result>>

\* process_block, line 142: store.add_block(block_metrics.clone(), tx_metrics).
AddBlock ==
    /\ pc = "add"
    /\ StoreAddBlock(pending[1].block, pending[1].txs)
    /\ not_found' = IF not_found = pending[1].block.block_number THEN None ELSE not_found
    /\ pc' = "send"
    /\ UNCHANGED <<chainVars, lockVars, calcVars, queryVars, normVars, statsVars, rpcVars, wsVars, confirmation_blocks, first_tick_done, latest, start_block, end_block,
                   block_num, pending, published, fetch_failure, poll_result>>

(***************************************************************************)
(* The broadcast channel of block events (main.rs:66) and the stream       *)
(* connections that subscribe to it (server/handlers.rs).  The channel     *)
(* keeps its last CHANNEL_CAPACITY events; bus_log is every event it took  *)
(* in, so that its ring is the last CHANNEL_CAPACITY entries of bus_log    *)
(* and a Receiver is the position it reads next.                           *)
(***************************************************************************)
MaxConns == 1

MaxEvents == CHANNEL_CAPACITY + 2

Conns == 1..MaxConns

\* The number of Receivers alive.
rx_cnt == Cardinality({c \in Conns : block_rx[c] # None})

\* broadcast::Sender::send: with no Receiver it returns Err(SendError) and
\* the channel keeps nothing; otherwise the event takes the next position.
broadcast_send(event) == IF rx_cnt = 0 THEN bus_log ELSE Append(bus_log, event)

\* No stream connection was made.
NoConns ==
    /\ bus_log = <<>>
    /\ block_rx = [c \in Conns |-> None]
    /\ ws_handler = [c \in Conns |-> "none"]
    /\ send_task = [c \in Conns |-> "none"]
    /\ recv_task = [c \in Conns |-> "none"]
    /\ socket_ok = [c \in Conns |-> FALSE]
    /\ sub_pos = [c \in Conns |-> 0]
    /\ delivered = [c \in Conns |-> <<>>]
    /\ lag_seen = [c \in Conns |-> FALSE]

\* A send that waits until every Receiver has room (a bounded queue per
\* subscriber): the variant C13 must tell from Send.
Send_Blocking ==
    /\ pc = "send"
    /\ \A c \in Conns : block_rx[c] # None => Len(bus_log) - block_rx[c] < CHANNEL_CAPACITY
    /\ published' = LastN(Append(published, [block |-> pending[1].block]), CHANNEL_CAPACITY)
    /\ bus_log' = broadcast_send([block |-> pending[1].block])
    /\ pending' = <<>>
    /\ LoopNext
    /\ UNCHANGED <<chainVars, lockVars, calcVars, queryVars, normVars, storeVars, statsVars, rpcVars, connVars, confirmation_blocks, first_tick_done, latest,
                   start_block, end_block, not_found, fetch_failure>>

\* process_block, line 145: block_tx.send(BlockEvent { block }), its result
\* dropped; then Ok(()) and the loop goes on.
Send ==
    /\ pc = "send"
    /\ published' = LastN(Append(published, [block |-> pending[1].block]), CHANNEL_CAPACITY)
    /\ bus_log' = broadcast_send([block |-> pending[1].block])
    /\ pending' = <<>>
    /\ LoopNext
    /\ UNCHANGED <<chainVars, lockVars, calcVars, queryVars, normVars, storeVars, statsVars, rpcVars, connVars, confirmation_blocks, first_tick_done, latest,
                   start_block, end_block, not_found, fetch_failure>>

\* handle_ws_connection, lines 221-253: the socket is split, the handler
\* subscribes and spawns the forwarder and the reader.  c is a connection
\* that was never made, or one that is over (handler returned, both tasks
\* ended), whose place a new connection takes.
WsConnect(c) ==
    /\ \/ ws_handler[c] = "none"
       \/ ws_handler[c] = "returned" /\ send_task[c] = "done" /\ recv_task[c] = "done"
    /\ ws_handler' = [ws_handler EXCEPT ![c] = "select"]
    /\ block_rx' = [block_rx EXCEPT ![c] = Len(bus_log)]
    /\ sub_pos' = [sub_pos EXCEPT ![c] = Len(bus_log)]
    /\ send_task' = [send_task EXCEPT ![c] = "running"]
    /\ recv_task' = [recv_task EXCEPT ![c] = "running"]
    /\ socket_ok' = [socket_ok EXCEPT ![c] = TRUE]
    /\ delivered' = [delivered EXCEPT ![c] = <<>>]
    /\ lag_seen' = [lag_seen EXCEPT ![c] = FALSE]
    /\ UNCHANGED <<chainVars, lockVars, calcVars, queryVars, normVars, storeVars, pollerVars, statsVars, rpcVars, bus_log>>

\* A forwarder whose Receiver stays where it is after a read: the variant
\* C16 must tell from WsForward.
WsForward_NoAdvance(c, ok) ==
    /\ send_task[c] = "running"
    /\ block_rx[c] < Len(bus_log)
    /\ ok /\ socket_ok[c]
    /\ Len(delivered[c]) < MaxEvents
    /\ delivered' = [delivered EXCEPT ![c] =
                        Append(@, [seq |-> block_rx[c] + 1,
                                   event |-> bus_log[block_rx[c] + 1]])]
    /\ UNCHANGED <<chainVars, lockVars, calcVars, queryVars, normVars, storeVars, pollerVars, statsVars, rpcVars, bus_log, block_rx,
                   ws_handler, send_task, recv_task, socket_ok, sub_pos, lag_seen>>

\* The forwarder, lines 228-236, when block_rx.recv() returns Ok(event):
\* the event is serialized and sent on the socket; ok is whether that send
\* succeeds.  A failed send ends the forwarder, which drops its Receiver and
\* its half of the socket.
WsForward(c, ok) ==
    /\ send_task[c] = "running"
    /\ block_rx[c] < Len(bus_log)
    /\ Len(bus_log) - block_rx[c] <= CHANNEL_CAPACITY
    /\ ok => socket_ok[c]
    /\ IF ok
       THEN /\ delivered' = [delivered EXCEPT ![c] =
                                Append(@, [seq |-> block_rx[c] + 1,
                                           event |-> bus_log[block_rx[c] + 1]])]
            /\ block_rx' = [block_rx EXCEPT ![c] = @ + 1]
            /\ UNCHANGED <<send_task, socket_ok>>
       ELSE /\ send_task' = [send_task EXCEPT ![c] = "done"]
            /\ block_rx' = [block_rx EXCEPT ![c] = None]
            /\ socket_ok' = [socket_ok EXCEPT ![c] = FALSE]
            /\ UNCHANGED delivered
    /\ UNCHANGED <<chainVars, lockVars, calcVars, queryVars, normVars, storeVars, pollerVars, statsVars, rpcVars, bus_log, ws_handler,
                   recv_task, sub_pos, lag_seen>>

\* A forwarder that takes Lagged for a notice and reads on from the oldest
\* event the channel still has: the variant C14 must tell from WsLagged.
WsLagged_Resume(c) ==
    /\ send_task[c] = "running"
    /\ Len(bus_log) - block_rx[c] > CHANNEL_CAPACITY
    /\ lag_seen' = [lag_seen EXCEPT ![c] = TRUE]
    /\ block_rx' = [block_rx EXCEPT ![c] = Len(bus_log) - CHANNEL_CAPACITY]
    /\ UNCHANGED <<chainVars, lockVars, calcVars, queryVars, normVars, storeVars, pollerVars, statsVars, rpcVars, bus_log, ws_handler,
                   send_task, recv_task, socket_ok, sub_pos, delivered>>

\* The forwarder, line 228, when the event it was to read next has been
\* overwritten: block_rx.recv() returns Err(Lagged), `while let Ok` ends the
\* loop and the task, and the Receiver and the sending half are dropped.
WsLagged(c) ==
    /\ send_task[c] = "running"
    /\ Len(bus_log) - block_rx[c] > CHANNEL_CAPACITY
    /\ lag_seen' = [lag_seen EXCEPT ![c] = TRUE]
    /\ send_task' = [send_task EXCEPT ![c] = "done"]
    /\ block_rx' = [block_rx EXCEPT ![c] = None]
    /\ UNCHANGED <<chainVars, lockVars, calcVars, queryVars, normVars, storeVars, pollerVars, statsVars, rpcVars, bus_log, ws_handler,
                   recv_task, socket_ok, sub_pos, delivered>>

\* The reader, lines 242-252, gets a Close frame (or the end of the stream)
\* and ends; the closing socket takes no more data frames.
WsClientClose(c) ==
    /\ recv_task[c] = "running"
    /\ recv_task' = [recv_task EXCEPT ![c] = "done"]
    /\ socket_ok' = [socket_ok EXCEPT ![c] = FALSE]
    /\ UNCHANGED <<chainVars, lockVars, calcVars, queryVars, normVars, storeVars, pollerVars, statsVars, rpcVars, bus_log, block_rx,
                   ws_handler, send_task, sub_pos, delivered, lag_seen>>

\* The reader gets Err(_) and ends; fatal is whether the error broke the
\* socket for sending too.
WsRecvError(c, fatal) ==
    /\ recv_task[c] = "running"
    /\ recv_task' = [recv_task EXCEPT ![c] = "done"]
    /\ socket_ok' = [socket_ok EXCEPT ![c] = @ /\ ~fatal]
    /\ UNCHANGED <<chainVars, lockVars, calcVars, queryVars, normVars, storeVars, pollerVars, statsVars, rpcVars, bus_log, block_rx,
                   ws_handler, send_task, sub_pos, delivered, lag_seen>>

\* handle_ws_connection, lines 256-260: select! sees one of the two
\* JoinHandles complete and the handler returns.  Dropping the JoinHandle of
\* the other task detaches it: the task is not cancelled.
WsSelect(c) ==
    /\ ws_handler[c] = "select"
    /\ send_task[c] = "done" \/ recv_task[c] = "done"
    /\ ws_handler' = [ws_handler EXCEPT ![c] = "returned"]
    /\ UNCHANGED <<chainVars, lockVars, calcVars, queryVars, normVars, storeVars, pollerVars, statsVars, rpcVars, bus_log, block_rx,
                   send_task, recv_task, socket_ok, sub_pos, delivered, lag_seen>>

(***************************************************************************)
(* Rolling percentile estimator (metrics/rolling_stats.rs).                *)
(***************************************************************************)
MaxSamplesParam == 2

MaxWindow == 2

MaxNow == 4

MaxMetric == 1

\* MetricSample: the six metrics of a block at an instant.  The model varies
\* total_gas and lets kv_updates run against it; the other four take the
\* same path through the estimator.
SampleOf(timestamp, total_gas) ==
    [timestamp |-> timestamp, total_gas |-> total_gas,
     kv_updates |-> MaxMetric - total_gas, tx_size |-> 0, da_size |-> 0,
     data_size |-> 0, state_growth |-> 0]

\* RollingStats::evict_old: pop the front while it is older than the cutoff.
RECURSIVE evict_old(_)
evict_old(ss) ==
    LET cutoff == now - window_duration
    IN  IF ss # <<>> /\ Head(ss).timestamp < cutoff THEN evict_old(Tail(ss)) ELSE ss

\* VecDeque::pop_front, which leaves an empty deque empty.
pop_front(ss) == IF ss = <<>> THEN ss ELSE Tail(ss)

\* add_sample that makes room by dropping the newest sample it holds: the
\* variant C34 must tell from add_sample.
add_sample_drops_newest(sample) ==
    LET kept == evict_old(samples)
        room == IF Len(kept) >= max_samples /\ kept # <<>>
                THEN SubSeq(kept, 1, Len(kept) - 1) ELSE kept
    IN  Append(room, sample)

\* RollingStats::add_sample: the samples after the call.
add_sample(sample) ==
    LET kept == evict_old(samples)
        room == IF Len(kept) >= max_samples THEN pop_front(kept) ELSE kept
    IN  Append(room, sample)

\* RollingStats::sample_count
sample_count == Len(samples)

\* A call of add_sample with a sample of any timestamp.
StatsAddSample(timestamp, total_gas) ==
    /\ samples' = add_sample(SampleOf(timestamp, total_gas))
    /\ UNCHANGED <<chainVars, lockVars, calcVars, queryVars, normVars, storeVars, pollerVars, rpcVars, wsVars, max_samples, window_duration, now>>

\* A call of add_block: add_sample with timestamp Instant::now().
StatsAddBlock(total_gas) ==
    /\ samples' = add_sample(SampleOf(now, total_gas))
    /\ UNCHANGED <<chainVars, lockVars, calcVars, queryVars, normVars, storeVars, pollerVars, rpcVars, wsVars, max_samples, window_duration, now>>

\* Time passes.
StatsClock ==
    /\ now < MaxNow
    /\ now' = now + 1
    /\ UNCHANGED <<chainVars, lockVars, calcVars, queryVars, normVars, storeVars, pollerVars, rpcVars, wsVars, samples, max_samples, window_duration>>

\* RollingStats::with_params(window_duration, max_samples); new() is the
\* case of 600 seconds and 2000 samples.  The clock starts late enough for
\* Instant::now() - window_duration to exist.
StatsInit ==
    /\ samples = <<>>
    /\ max_samples \in 0..MaxSamplesParam
    /\ window_duration \in 0..MaxWindow
    /\ now = MaxWindow

\* The service (main.rs) builds no RollingStats.
StatsUnused ==
    /\ samples = <<>>
    /\ max_samples = 0
    /\ window_duration = 0
    /\ now = 0

(***************************************************************************)
(* Percentiles and the normalizer (metrics/rolling_stats.rs).  The f64     *)
(* quantities are kept in thousandths, truncated: a score of 70.0 is       *)
(* 70000 and a utilization_pct of 12.5 is 12500.                           *)
(***************************************************************************)
BLOCK_GAS_LIMIT == 30000000

BLOCK_KV_UPDATE_LIMIT == 500000

BLOCK_TX_SIZE_LIMIT == 1000000

BLOCK_DA_SIZE_LIMIT == 1000000

BLOCK_DATA_LIMIT == 10000000

BLOCK_STATE_GROWTH_LIMIT == 100000

\* The values of a metric the model draws from are the multiples of
\* limit / LevelsPerLimit up to MaxLevel of them.
LevelsPerLimit == 4

MaxLevel == 5

MaxNormSamples == 3

MetricLimits ==
    [total_gas |-> BLOCK_GAS_LIMIT, kv_updates |-> BLOCK_KV_UPDATE_LIMIT,
     tx_size |-> BLOCK_TX_SIZE_LIMIT, da_size |-> BLOCK_DA_SIZE_LIMIT,
     data_size |-> BLOCK_DATA_LIMIT, state_growth |-> BLOCK_STATE_GROWTH_LIMIT]

Metrics == DOMAIN MetricLimits

\* The six values of a block all of whose metrics are at level j.
LevelValues(j) == [m \in Metrics |-> (j * MetricLimits[m]) \div LevelsPerLimit]

\* The MetricSample of such a block.
LevelSample(timestamp, j) ==
    [timestamp |-> timestamp, total_gas |-> LevelValues(j).total_gas,
     kv_updates |-> LevelValues(j).kv_updates, tx_size |-> LevelValues(j).tx_size,
     da_size |-> LevelValues(j).da_size, data_size |-> LevelValues(j).data_size,
     state_growth |-> LevelValues(j).state_growth]

\* values.sort_unstable()
RECURSIVE Insert(_, _)
Insert(v, sorted) ==
    IF sorted = <<>> THEN <<v>>
    ELSE IF v <= Head(sorted) THEN <<v>> \o sorted
    ELSE <<Head(sorted)>> \o Insert(v, Tail(sorted))

RECURSIVE sort_unstable(_)
sort_unstable(values) ==
    IF values = <<>> THEN <<>> ELSE Insert(Head(values), sort_unstable(Tail(values)))

\* PercentileStats::default()
PercentileStatsDefault ==
    [p10 |-> 0, p25 |-> 0, median |-> 0, p75 |-> 0, p90 |-> 0, iqr |-> 0,
     min |-> 0, max |-> 0, count |-> 0]

\* The index of the p-th percentile among n sorted values, lines 192-196:
\* values[n * p / 100], counted from 0.
percentile_index(n, p) == (n * p) \div 100

\* compute_percentiles without values.sort_unstable(): the variant C21 must
\* tell from compute_percentiles.
compute_percentiles_unsorted(m) ==
    LET values == [i \in 1..Len(samples) |-> samples[i][m]]
        n == Len(values)
        at(p) == values[percentile_index(n, p) + 1]
    IN  IF values = <<>> THEN PercentileStatsDefault
        ELSE [p10 |-> at(10), p25 |-> at(25), median |-> at(50), p75 |-> at(75),
              p90 |-> at(90), iqr |-> saturating_sub(at(75), at(25)),
              min |-> values[1], max |-> values[n], count |-> n]

\* RollingStats::compute_percentiles for the metric m of the samples.
compute_percentiles(m) ==
    LET values == sort_unstable([i \in 1..Len(samples) |-> samples[i][m]])
        n == Len(values)
        at(p) == values[percentile_index(n, p) + 1]
    IN  IF values = <<>> THEN PercentileStatsDefault
        ELSE [p10 |-> at(10), p25 |-> at(25), median |-> at(50), p75 |-> at(75),
              p90 |-> at(90), iqr |-> saturating_sub(at(75), at(25)),
              min |-> values[1], max |-> values[n], count |-> n]

\* RollingStats::compute_stats
compute_stats ==
    IF samples = <<>> THEN [m \in Metrics |-> PercentileStatsDefault]
    ELSE [m \in Metrics |-> compute_percentiles(m)]

\* num / den to the given number of decimal digits, as an integer:
\* floor(num * 10^digits / den), for num >= 0 and den > 0.
RECURSIVE DecDiv(_, _, _)
DecDiv(num, den, digits) ==
    IF digits = 0 THEN num \div den
    ELSE LET rest == DecDiv((num % den) * 10, den, digits - 1)
             RECURSIVE Pow10(_)
             Pow10(k) == IF k = 0 THEN 1 ELSE 10 * Pow10(k - 1)
         IN  (num \div den) * Pow10(digits) + rest

\* 100000 * tanh(k / 4) for k = 0..24, truncated.
TanhTable ==
    <<0, 24491, 46211, 63514, 76159, 84828, 90514, 94137, 96402, 97802, 98661,
      99185, 99505, 99699, 99817, 99889, 99932, 99959, 99975, 99985, 99990, 99994,
      99996, 99997, 99998>>

\* x.tanh() * 100.0 in thousandths for x = num / den, den > 0: the table,
\* interpolated between its points, odd in x, and 99.999 from x = 6 on.
tanh_score(num, den) ==
    LET a == IF num < 0 THEN 0 - num ELSE num
        k == (4 * a) \div den
        frac == DecDiv((4 * a) % den, den, 3)
        t == IF k >= 24 THEN 99999
             ELSE TanhTable[k + 1] + ((TanhTable[k + 2] - TanhTable[k + 1]) * frac) \div 1000
    IN  IF num < 0 THEN 0 - t ELSE t

\* f64::clamp
clamp(x, lo, hi) == IF x < lo THEN lo ELSE IF x > hi THEN hi ELSE x

\* normalize_metric without the closing clamp of either branch: the variant
\* C20 must tell from normalize_metric.
normalize_metric_unclamped(value, stats, protocol_limit) ==
    LET utilization_pct == DecDiv(value, protocol_limit, 5)
    IN  IF stats.count = 0 \/ stats.iqr = 0
        THEN [raw |-> value, score |-> 2 * utilization_pct - 100000,
              utilization_pct |-> utilization_pct, limit |-> protocol_limit]
        ELSE LET base == tanh_score(2 * (value - stats.median), 3 * stats.iqr)
                 score == IF 2 * value > protocol_limit
                          THEN Max(base, utilization_pct) ELSE base
             IN  [raw |-> value, score |-> score,
                  utilization_pct |-> utilization_pct, limit |-> protocol_limit]

\* normalize_metric without the capacity warning of lines 292-296: the
\* variant C19 must tell from normalize_metric.
normalize_metric_no_capacity(value, stats, protocol_limit) ==
    LET utilization_pct == DecDiv(value, protocol_limit, 5)
    IN  IF stats.count = 0 \/ stats.iqr = 0
        THEN [raw |-> value,
              score |-> clamp(2 * utilization_pct - 100000, 0 - 100000, 100000),
              utilization_pct |-> utilization_pct, limit |-> protocol_limit]
        ELSE [raw |-> value,
              score |-> clamp(tanh_score(2 * (value - stats.median), 3 * stats.iqr),
                              0 - 100000, 100000),
              utilization_pct |-> utilization_pct, limit |-> protocol_limit]

\* normalize_metric.  utilization is value / limit; spread is iqr * 1.5, so
\* x is 2 * (value - median) / (3 * iqr); utilization > 0.5 is
\* 2 * value > limit.
normalize_metric(value, stats, protocol_limit) ==
    LET utilization_pct == DecDiv(value, protocol_limit, 5)
    IN  IF stats.count = 0 \/ stats.iqr = 0
        THEN [raw |-> value,
              score |-> clamp(2 * utilization_pct - 100000, 0 - 100000, 100000),
              utilization_pct |-> utilization_pct, limit |-> protocol_limit]
        ELSE LET base == tanh_score(2 * (value - stats.median), 3 * stats.iqr)
                 score == IF 2 * value > protocol_limit
                          THEN Max(base, utilization_pct) ELSE base
             IN  [raw |-> value, score |-> clamp(score, 0 - 100000, 100000),
                  utilization_pct |-> utilization_pct, limit |-> protocol_limit]

\* RollingStats::normalize_block
normalize_block(values) ==
    LET stats == compute_stats
    IN  [m \in Metrics |-> normalize_metric(values[m], stats[m], MetricLimits[m])]

\* normalize_block was not called.
NormIdle ==
    /\ norm_args = <<>>
    /\ normalized = <<>>

\* A call of normalize_block with the values of a block at level j.
NormalizeBlock(j) ==
    /\ norm_args' = LevelValues(j)
    /\ normalized' = normalize_block(LevelValues(j))
    /\ UNCHANGED <<chainVars, lockVars, calcVars, queryVars, storeVars, pollerVars, statsVars, rpcVars, wsVars>>

(***************************************************************************)
(* Queries on the store (metrics/store.rs, server/handlers.rs).  Instants  *)
(* are whole seconds from the epoch.  The 64-bit second counts are scaled  *)
(* down, keeping their order: u64 values are 0..U64_MAX, i64 values are    *)
(* -I64_MAX-1..I64_MAX, a chrono Duration holds up to i64::MAX / 1000      *)
(* seconds either way, and a DateTime<Utc> lies within DateTimeSpan        *)
(* seconds of the epoch.                                                   *)
(***************************************************************************)
U64_MAX == 1048575

DateTimeSpan == 100

MaxUtcNow == 2

MaxSeconds == 1

I64_MAX == U64_MAX \div 2

DURATION_MAX_SECS == I64_MAX \div 1000

\* A call that panicked returns nothing; one that did not returns v.
Panic == [panic |-> TRUE]

Returns(v) == [panic |-> FALSE, value |-> v]

\* seconds as i64
as_i64(v) == IF v > I64_MAX THEN v - (U64_MAX + 1) ELSE v

\* chrono::Duration::seconds, which panics out of bounds.
duration_seconds(secs) ==
    IF secs < 0 - DURATION_MAX_SECS \/ secs > DURATION_MAX_SECS THEN Panic
    ELSE Returns(secs)

\* DateTime<Utc> - Duration, which panics when the result is no DateTime.
datetime_sub(t, d) ==
    IF t - d < 0 - DateTimeSpan \/ t - d > DateTimeSpan THEN Panic ELSE Returns(t - d)

\* The metrics a WindowStats aggregates.
WindowMetrics ==
    {"total_gas", "compute_gas", "storage_gas", "tx_size", "da_size", "data_size",
     "kv_updates", "state_growth"}

\* percentile(items, extract, p), store.rs lines 185-198, of the values.
percentile(values, p) ==
    IF values = <<>> THEN 0
    ELSE sort_unstable(values)[Min((Len(values) * p) \div 100, Len(values) - 1) + 1]

\* iter().max().unwrap_or(0)
max_or_zero(values) ==
    IF values = <<>> THEN 0
    ELSE CHOOSE v \in {values[i] : i \in 1..Len(values)} :
             \A i \in 1..Len(values) : values[i] <= v

\* WindowStats::default() but for the two instants.
WindowStatsZero(window_start, window_end) ==
    [window_start |-> window_start, window_end |-> window_end,
     block_count |-> 0, tx_count |-> 0,
     mean |-> [m \in WindowMetrics |-> 0], p95 |-> [m \in WindowMetrics |-> 0],
     max |-> [m \in WindowMetrics |-> 0], sum |-> [m \in WindowMetrics |-> 0]]

\* The rest of get_window_stats once window_start is computed, store.rs
\* lines 73-175.  The means are in thousandths.
window_stats_from(window_start, t) ==
    LET in_window(row) == row.timestamp >= window_start
        window_blocks == SelectSeq(blocks, in_window)
        window_txs == SelectSeq(transactions, in_window)
        block_count == Len(window_blocks)
        col(rows, m) == [i \in 1..Len(rows) |-> rows[i][m]]
    IN  IF window_blocks = <<>> THEN WindowStatsZero(window_start, t)
        ELSE [window_start |-> window_start, window_end |-> t,
              block_count |-> block_count, tx_count |-> Len(window_txs),
              mean |-> [m \in WindowMetrics |->
                           DecDiv(SeqSum(col(window_blocks, m)), block_count, 3)],
              p95 |-> [m \in WindowMetrics |-> percentile(col(window_txs, m), 95)],
              max |-> [m \in WindowMetrics |-> max_or_zero(col(window_txs, m))],
              sum |-> [m \in WindowMetrics |-> SeqSum(col(window_blocks, m))]]

\* MetricsStore::get_window_stats(seconds) when Utc::now() is t.
get_window_stats(seconds, t) ==
    LET d == duration_seconds(as_i64(seconds))
        window_start == IF d.panic THEN Panic ELSE datetime_sub(t, d.value)
    IN  IF window_start.panic THEN Panic
        ELSE Returns(window_stats_from(window_start.value, t))

\* blocks.iter().rev()
RECURSIVE Reverse(_)
Reverse(s) == IF s = <<>> THEN <<>> ELSE Append(Reverse(Tail(s)), Head(s))

\* get_recent_blocks without rev(): the variant C27 must tell from
\* get_recent_blocks.
get_recent_blocks_oldest_first(count) == SubSeq(blocks, 1, Min(count, Len(blocks)))

\* MetricsStore::get_recent_blocks(count): blocks.iter().rev().take(count).
get_recent_blocks(count) == SubSeq(Reverse(blocks), 1, Min(count, Len(blocks)))

\* The body of GET /health, handlers.rs lines 56-62.
health == [status |-> "ok", last_block |-> last_block_number]

\* No query was handled.
NoQuery ==
    /\ http_request = [endpoint |-> "none"]
    /\ http_response = [status |-> 0]

\* The handler of GET /stats/window?seconds=..., handlers.rs lines 65-71,
\* when Utc::now() is t: 200 with the stats, or the store's call panics
\* and the request fails (status 500 stands for every such outcome).
HandleWindowStats(seconds, t) ==
    LET stats == get_window_stats(seconds, t)
    IN  /\ http_request' = [endpoint |-> "window", seconds |-> seconds, now |-> t]
        /\ http_response' = IF stats.panic THEN [status |-> 500]
                            ELSE [status |-> 200, body |-> stats.value]
        /\ UNCHANGED <<chainVars, lockVars, calcVars, storeVars, pollerVars, statsVars, rpcVars, wsVars, normVars>>

\* The handler of GET /blocks/recent?count=..., handlers.rs lines 84-90.
HandleRecentBlocks(count) ==
    /\ http_request' = [endpoint |-> "recent", count |-> count]
    /\ http_response' = [status |-> 200, body |-> get_recent_blocks(count)]
    /\ UNCHANGED <<chainVars, lockVars, calcVars, storeVars, pollerVars, statsVars, rpcVars, wsVars, normVars>>

(***************************************************************************)
(* The store seen at the level of its three RwLocks (metrics/store.rs      *)
(* lines 12-19).  Task 0 is the poller, the tasks of Readers are handlers  *)
(* in get_window_stats.  A tokio RwLock serves its waiters in the order of *)
(* their requests: a task joins the queue of the lock and is granted the   *)
(* lock when it is at the head and the lock is free for its mode.  The     *)
(* statements a task runs between two awaits are steps of their own, since *)
(* the runtime runs the tasks on several threads.                          *)
(***************************************************************************)
MaxReaders == 2

Poller == 0

Readers == 1..MaxReaders

Locks == {"blocks", "transactions", "last_block"}

Unlocked == [writer |-> None, readers |-> {}]

\* LockFree of a lock that lets readers in beside a writer: the variant C38
\* must tell from LockFree.
LockFree_readers_beside_writer(h, mode) ==
    IF mode = "write" THEN h.writer = None /\ h.readers = {} ELSE TRUE

\* Whether a lock in state h can be granted in the given mode.
LockFree(h, mode) ==
    IF mode = "write" THEN h.writer = None /\ h.readers = {} ELSE h.writer = None

\* lock.read() or lock.write() is awaited: the task joins the queue.
lock_request(t, l, mode) ==
    [lock_queue EXCEPT ![l] = Append(@, [task |-> t, mode |-> mode])]

\* Whether task t holds lock l in the given mode.
Holds(t, l, mode) ==
    IF mode = "write" THEN lock_held[l].writer = t ELSE t \in lock_held[l].readers

\* The guards of task t on the locks ls are dropped.
lock_release(t, ls) ==
    [l \in Locks |->
        IF l \in ls
        THEN [writer |-> IF lock_held[l].writer = t THEN None ELSE lock_held[l].writer,
              readers |-> lock_held[l].readers \ {t}]
        ELSE lock_held[l]]

\* No task uses the store.
LocksIdle ==
    /\ lock_held = [l \in Locks |-> Unlocked]
    /\ lock_queue = [l \in Locks |-> <<>>]
    /\ w_pc = "idle"
    /\ w_args = <<>>
    /\ r_pc = [r \in Readers |-> "idle"]
    /\ r_snap = [r \in Readers |-> <<>>]

\* The start of the poller task: run() calls poll_once, which awaits
\* eth_blockNumber.
LocksInit ==
    /\ lock_held = [l \in Locks |-> Unlocked]
    /\ lock_queue = [l \in Locks |-> <<>>]
    /\ w_pc = "head_rpc"
    /\ w_args = <<>>
    /\ r_pc = [r \in Readers |-> "idle"]
    /\ r_snap = [r \in Readers |-> <<>>]

\* The lock l passes to the task at the head of its queue.
LockGrant(l) ==
    /\ lock_queue[l] # <<>>
    /\ LockFree(lock_held[l], Head(lock_queue[l]).mode)
    /\ lock_held' =
           [lock_held EXCEPT ![l] =
               IF Head(lock_queue[l]).mode = "write"
               THEN [@ EXCEPT !.writer = Head(lock_queue[l]).task]
               ELSE [@ EXCEPT !.readers = @ \cup {Head(lock_queue[l]).task}]]
    /\ lock_queue' = [lock_queue EXCEPT ![l] = Tail(@)]
    /\ UNCHANGED <<chainVars, w_pc, w_args, r_pc, r_snap, storeVars, calcVars, queryVars, normVars,
                   pollerVars, statsVars, rpcVars, wsVars>>

\* poll_once, lines 72-76: eth_blockNumber returned and last_block_number()
\* awaits last_block.read().
WHeadDone ==
    /\ w_pc = "head_rpc"
    /\ lock_queue' = lock_request(Poller, "last_block", "read")
    /\ w_pc' = "wait_last_read"
    /\ UNCHANGED <<chainVars, lock_held, w_args, r_pc, r_snap, storeVars, calcVars, queryVars,
                   normVars, pollerVars, statsVars, rpcVars, wsVars>>

\* last_block_number, store.rs line 56: the value is read and the guard
\* dropped; process_block then awaits the block and its receipts.
WReadLast ==
    /\ w_pc = "wait_last_read"
    /\ Holds(Poller, "last_block", "read")
    /\ lock_held' = lock_release(Poller, {"last_block"})
    /\ w_pc' = "fetch_rpc"
    /\ UNCHANGED <<chainVars, lock_queue, w_args, r_pc, r_snap, storeVars, calcVars, queryVars,
                   normVars, pollerVars, statsVars, rpcVars, wsVars>>

\* process_block, lines 107-142: block n and its receipts arrived, the
\* calculator ran, and add_block awaits blocks.write().
WFetchDone(n, kind) ==
    /\ w_pc = "fetch_rpc"
    /\ w_args' = <<process_block_metrics(RawBlockOf(n, kind), RawReceiptsOf(n, kind))>>
    /\ lock_queue' = lock_request(Poller, "blocks", "write")
    /\ w_pc' = "wait_blocks"
    /\ UNCHANGED <<chainVars, lock_held, r_pc, r_snap, storeVars, calcVars, queryVars, normVars,
                   pollerVars, statsVars, rpcVars, wsVars>>

\* add_block, lines 32-33: it has blocks.write() and awaits
\* transactions.write().
WGotBlocks ==
    /\ w_pc = "wait_blocks"
    /\ Holds(Poller, "blocks", "write")
    /\ lock_queue' = lock_request(Poller, "transactions", "write")
    /\ w_pc' = "wait_transactions"
    /\ UNCHANGED <<chainVars, lock_held, w_args, r_pc, r_snap, storeVars, calcVars, queryVars,
                   normVars, pollerVars, statsVars, rpcVars, wsVars>>

\* add_block, lines 33-34: it has transactions.write() and awaits
\* last_block.write().
WGotTransactions ==
    /\ w_pc = "wait_transactions"
    /\ Holds(Poller, "transactions", "write")
    /\ lock_queue' = lock_request(Poller, "last_block", "write")
    /\ w_pc' = "wait_last_block"
    /\ UNCHANGED <<chainVars, lock_held, w_args, r_pc, r_snap, storeVars, calcVars, queryVars,
                   normVars, pollerVars, statsVars, rpcVars, wsVars>>

\* add_block, line 37: blocks.push_back.
WPushBlock ==
    /\ w_pc = "wait_last_block"
    /\ Holds(Poller, "last_block", "write")
    /\ blocks' = Append(blocks, w_args[1].block)
    /\ w_pc' = "pushed_block"
    /\ UNCHANGED <<chainVars, lock_held, lock_queue, w_args, r_pc, r_snap, transactions, last_block,
                   evicted, calcVars, queryVars, normVars, pollerVars, statsVars, rpcVars,
                   wsVars>>

\* add_block, lines 38-40: transactions.push_back of each record.
WPushTxs ==
    /\ w_pc = "pushed_block"
    /\ transactions' = transactions \o w_args[1].txs
    /\ w_pc' = "pushed_txs"
    /\ UNCHANGED <<chainVars, lock_held, lock_queue, w_args, r_pc, r_snap, blocks, last_block,
                   evicted, calcVars, queryVars, normVars, pollerVars, statsVars, rpcVars,
                   wsVars>>

\* add_block, line 41.
WSetLast ==
    /\ w_pc = "pushed_txs"
    /\ last_block' = w_args[1].block.block_number
    /\ w_pc' = "set_last"
    /\ UNCHANGED <<chainVars, lock_held, lock_queue, w_args, r_pc, r_snap, blocks, transactions,
                   evicted, calcVars, queryVars, normVars, pollerVars, statsVars, rpcVars,
                   wsVars>>

\* WTrimReturn with the guard of blocks kept after add_block returned: the
\* variant C33 must tell from WTrimReturn.
WTrimReturn_keeps_guard ==
    /\ w_pc = "set_last"
    /\ LET trimmed == trim(blocks, transactions, <<>>)
       IN  /\ blocks' = trimmed.blocks
           /\ transactions' = trimmed.transactions
           /\ evicted' = trimmed.evicted
    /\ lock_held' = lock_release(Poller, {"transactions", "last_block"})
    /\ w_pc' = "send"
    /\ UNCHANGED <<chainVars, lock_queue, w_args, r_pc, r_snap, last_block, calcVars, queryVars,
                   normVars, pollerVars, statsVars, rpcVars, wsVars>>

\* add_block, lines 44-52: the trimming loop, and the three guards are
\* dropped as add_block returns.
WTrimReturn ==
    /\ w_pc = "set_last"
    /\ LET trimmed == trim(blocks, transactions, <<>>)
       IN  /\ blocks' = trimmed.blocks
           /\ transactions' = trimmed.transactions
           /\ evicted' = trimmed.evicted
    /\ lock_held' = lock_release(Poller, Locks)
    /\ w_pc' = "send"
    /\ UNCHANGED <<chainVars, lock_queue, w_args, r_pc, r_snap, last_block, calcVars, queryVars,
                   normVars, pollerVars, statsVars, rpcVars, wsVars>>

\* process_block, line 145: the event is sent (no await); then the loop of
\* poll_once fetches the next block, or poll_once returns and the next tick
\* asks for the head.
WSend(again) ==
    /\ w_pc = "send"
    /\ w_args' = <<>>
    /\ w_pc' = IF again THEN "fetch_rpc" ELSE "head_rpc"
    /\ UNCHANGED <<chainVars, lock_held, lock_queue, r_pc, r_snap, storeVars, calcVars, queryVars,
                   normVars, pollerVars, statsVars, rpcVars, wsVars>>

\* get_window_stats, line 67: a handler awaits blocks.read().
RCall(r) ==
    /\ r_pc[r] = "idle"
    /\ lock_queue' = lock_request(r, "blocks", "read")
    /\ r_pc' = [r_pc EXCEPT ![r] = "wait_blocks"]
    /\ UNCHANGED <<chainVars, lock_held, w_pc, w_args, r_snap, storeVars, calcVars, queryVars,
                   normVars, pollerVars, statsVars, rpcVars, wsVars>>

\* get_window_stats, lines 67-68: it has blocks.read() and awaits
\* transactions.read().
RGotBlocks(r) ==
    /\ r_pc[r] = "wait_blocks"
    /\ Holds(r, "blocks", "read")
    /\ lock_queue' = lock_request(r, "transactions", "read")
    /\ r_pc' = [r_pc EXCEPT ![r] = "wait_transactions"]
    /\ UNCHANGED <<chainVars, lock_held, w_pc, w_args, r_snap, storeVars, calcVars, queryVars,
                   normVars, pollerVars, statsVars, rpcVars, wsVars>>

\* get_window_stats, lines 74-77: the blocks are read.
RReadBlocks(r) ==
    /\ r_pc[r] = "wait_transactions"
    /\ Holds(r, "transactions", "read")
    /\ r_snap' = [r_snap EXCEPT ![r] = <<blocks>>]
    /\ r_pc' = [r_pc EXCEPT ![r] = "read_blocks"]
    /\ UNCHANGED <<chainVars, lock_held, lock_queue, w_pc, w_args, storeVars, calcVars, queryVars,
                   normVars, pollerVars, statsVars, rpcVars, wsVars>>

\* get_window_stats, lines 80-83: the transactions are read.
RReadTxs(r) ==
    /\ r_pc[r] = "read_blocks"
    /\ r_snap' = [r_snap EXCEPT ![r] = <<r_snap[r][1], transactions>>]
    /\ r_pc' = [r_pc EXCEPT ![r] = "read_both"]
    /\ UNCHANGED <<chainVars, lock_held, lock_queue, w_pc, w_args, storeVars, calcVars, queryVars,
                   normVars, pollerVars, statsVars, rpcVars, wsVars>>

\* get_window_stats returns: both guards are dropped.
RReturn(r) ==
    /\ r_pc[r] = "read_both"
    /\ lock_held' = lock_release(r, {"blocks", "transactions"})
    /\ r_snap' = [r_snap EXCEPT ![r] = <<>>]
    /\ r_pc' = [r_pc EXCEPT ![r] = "idle"]
    /\ UNCHANGED <<chainVars, lock_queue, w_pc, w_args, storeVars, calcVars, queryVars, normVars,
                   pollerVars, statsVars, rpcVars, wsVars>>

(***************************************************************************)
(* JSON-RPC adapter (rpc/client.rs): rpc_call and rpc_call_once.  What the *)
(* endpoint does with one request is a record                              *)
(*   [sent, status, body]                                                  *)
(* sent: "ok", or why reqwest's send() failed ("connect", "timeout");      *)
(* status: the HTTP status; body: "result" (a JSON object with a result),  *)
(* "error" (a JSON object with an error member), "garbage" (not JSON),     *)
(* "unreadable" (the body could not be read).                              *)
(***************************************************************************)
MAX_RETRIES == 3

BACKOFF_BASE_MS == 100

Responses ==
    {[sent |-> "connect", status |-> 0,   body |-> "unreadable"],
     [sent |-> "timeout", status |-> 0,   body |-> "unreadable"],
     [sent |-> "ok",      status |-> 503, body |-> "garbage"],
     [sent |-> "ok",      status |-> 404, body |-> "garbage"],
     [sent |-> "ok",      status |-> 200, body |-> "unreadable"],
     [sent |-> "ok",      status |-> 200, body |-> "garbage"],
     [sent |-> "ok",      status |-> 200, body |-> "error"],
     [sent |-> "ok",      status |-> 200, body |-> "result"]}

RpcOk == [ok |-> TRUE, err |-> "none", status |-> 200]

\* Option::None of last_error, and the result of a call that has not returned.
RpcNone == [ok |-> FALSE, err |-> "none", status |-> 0]

RpcErr(err, status) == [ok |-> FALSE, err |-> err, status |-> status]

\* StatusCode::is_success
is_success(status) == status >= 200 /\ status < 300

\* rpc_call_once: Ok(resp["result"]) or the first error on its way.
rpc_call_once(resp) ==
    IF resp.sent # "ok" THEN RpcErr(resp.sent, 0)
    ELSE IF ~is_success(resp.status) THEN RpcErr("http", resp.status)
    ELSE IF resp.body = "unreadable" THEN RpcErr("body", resp.status)
    ELSE IF resp.body = "garbage" THEN RpcErr("parse", resp.status)
    ELSE IF resp.body = "error" THEN RpcErr("rpc", resp.status)
    ELSE RpcOk

\* 1 << n
RECURSIVE shl1(_)
shl1(n) == IF n = 0 THEN 1 ELSE 2 * shl1(n - 1)

\* A backoff that does not double: the variant C12 must tell from
\* backoff_delay.
backoff_delay_flat(n) == BACKOFF_BASE_MS

\* rpc_call, line 234: Duration::from_millis(100 * (1 << attempt)).
backoff_delay(n) == BACKOFF_BASE_MS * shl1(n)

\* No rpc_call in progress and none made yet.
RpcIdle ==
    /\ rpc_pc = "idle"
    /\ attempt = 0
    /\ last_error = RpcNone
    /\ rpc_result = RpcNone
    /\ rpc_outcomes = <<>>
    /\ rpc_delays = <<>>

\* rpc_call is entered: lines 221-224.
RpcCall ==
    /\ rpc_pc = "idle"
    /\ rpc_pc' = "request"
    /\ attempt' = 0
    /\ last_error' = RpcNone
    /\ rpc_result' = RpcNone
    /\ rpc_outcomes' = <<>>
    /\ rpc_delays' = <<>>
    /\ UNCHANGED <<chainVars, lockVars, calcVars, queryVars, normVars, storeVars, pollerVars, statsVars, wsVars>>

\* One turn of the loop of rpc_call, lines 225-239, up to the sleep: the
\* request of this attempt is answered by resp.  After the last attempt the
\* loop ends and line 242 returns last_error.
RpcAttempt(resp) ==
    LET result == rpc_call_once(resp)
    IN  /\ rpc_pc = "request"
        /\ rpc_outcomes' = Append(rpc_outcomes, result)
        /\ IF result.ok
           THEN /\ rpc_pc' = "idle"
                /\ rpc_result' = result
                /\ UNCHANGED <<attempt, last_error, rpc_delays>>
           ELSE /\ last_error' = result
                /\ IF attempt < MAX_RETRIES - 1
                   THEN /\ rpc_pc' = "sleep"
                        /\ rpc_delays' = Append(rpc_delays, backoff_delay(attempt))
                        /\ UNCHANGED <<attempt, rpc_result>>
                   ELSE /\ rpc_pc' = "idle"
                        /\ rpc_result' = result
                        /\ attempt' = attempt + 1
                        /\ UNCHANGED rpc_delays
        /\ UNCHANGED <<chainVars, lockVars, calcVars, queryVars, normVars, storeVars, pollerVars, statsVars, wsVars>>

\* tokio::time::sleep(delay) is over: the next turn of the loop.
RpcWake ==
    /\ rpc_pc = "sleep"
    /\ rpc_pc' = "request"
    /\ attempt' = attempt + 1
    /\ UNCHANGED <<chainVars, lockVars, calcVars, queryVars, normVars, storeVars, pollerVars, statsVars, wsVars, last_error, rpc_result,
                   rpc_outcomes, rpc_delays>>

Init ==
    /\ StoreInit
    /\ PollerInit
    /\ StatsUnused
    /\ RpcIdle
    /\ NoConns
    /\ NormIdle
    /\ NoQuery
    /\ CalcIdle
    /\ LocksIdle

Next ==
    \/ PollFailed
    \/ \E head \in 0..MaxHead : PollOnce(head)
    \/ \E kind \in BlockKinds : FetchBlock(kind)
    \/ \E receipts_ok \in BOOLEAN : FetchNotFound(receipts_ok)
    \/ \E kind \in {"transport", "malformed", "receipts"} : FetchFailed(kind)
    \/ AddBlock
    \/ Send

Spec == Init /\ [][Next]_vars

(***************************************************************************)
(* The store taken alone: add_block called with the calculator's output    *)
(* for blocks of arbitrary numbers.                                        *)
(***************************************************************************)
PollerIdle ==
    /\ stable_head = None
    /\ confirmation_blocks = 0
    /\ pc = "sleep"
    /\ latest = 0
    /\ start_block = 0
    /\ end_block = 0
    /\ block_num = 0
    /\ pending = <<>>
    /\ published = <<>>
    /\ not_found = None
    /\ fetch_failure = NoFailure
    /\ poll_result = "none"
    /\ first_tick_done = FALSE

StoreAdd(n, kind) ==
    LET out == process_block_metrics(RawBlockOf(n, kind), RawReceiptsOf(n, kind))
    IN  /\ StoreAddBlock(out.block, out.txs)
        /\ UNCHANGED <<chainVars, lockVars, calcVars, queryVars, normVars, pollerVars, statsVars, rpcVars, wsVars>>

InitStore ==
    /\ StoreInit
    /\ PollerIdle
    /\ StatsUnused
    /\ RpcIdle
    /\ NoConns
    /\ NormIdle
    /\ NoQuery
    /\ CalcIdle
    /\ LocksIdle

NextStore == \E n \in 0..MaxBlockNumber, kind \in BlockKinds : StoreAdd(n, kind)

SpecStore == InitStore /\ [][NextStore]_vars

(***************************************************************************)
(* The estimator taken alone.                                              *)
(***************************************************************************)
InitStats ==
    /\ StoreInit
    /\ PollerIdle
    /\ StatsInit
    /\ RpcIdle
    /\ NoConns
    /\ NormIdle
    /\ NoQuery
    /\ CalcIdle
    /\ LocksIdle

NextStats ==
    \/ \E timestamp \in 0..MaxNow, total_gas \in 0..MaxMetric :
           StatsAddSample(timestamp, total_gas)
    \/ \E total_gas \in 0..MaxMetric : StatsAddBlock(total_gas)
    \/ StatsClock

SpecStats == InitStats /\ [][NextStats]_vars

(***************************************************************************)
(* The RPC adapter taken alone: rpc_call called again and again.  Each     *)
(* request ends (reqwest's 10 s timeout, line 249) and each sleep ends, so *)
(* a step that is possible is eventually taken.                            *)
(***************************************************************************)
InitRpc ==
    /\ StoreInit
    /\ PollerIdle
    /\ StatsUnused
    /\ RpcIdle
    /\ NoConns
    /\ NormIdle
    /\ NoQuery
    /\ CalcIdle
    /\ LocksIdle

NextRpc ==
    \/ RpcCall
    \/ \E resp \in Responses : RpcAttempt(resp)
    \/ RpcWake

SpecRpc == InitRpc /\ [][NextRpc]_vars /\ WF_vars(NextRpc)

(***************************************************************************)
(* The poller with stream connections: confirmation depth 0, a head that   *)
(* grows by one block from tick to tick, every block present and empty,    *)
(* and clients that connect, read slowly or not at all, close or fail.     *)
(* The channel takes in MaxEvents events at most.                          *)
(***************************************************************************)
InitBus ==
    /\ StoreInit
    /\ PollerIdle
    /\ StatsUnused
    /\ RpcIdle
    /\ NoConns
    /\ NormIdle
    /\ NoQuery
    /\ CalcIdle
    /\ LocksIdle

NextBus ==
    \/ latest < MaxHead /\ PollOnce(latest + 1)
    \/ FetchBlock("empty")
    \/ AddBlock
    \/ Len(bus_log) < MaxEvents /\ Send
    \/ \E c \in Conns : WsConnect(c)
    \/ \E c \in Conns, ok \in BOOLEAN : WsForward(c, ok)
    \/ \E c \in Conns : WsLagged(c)
    \/ \E c \in Conns : WsClientClose(c)
    \/ \E c \in Conns, fatal \in BOOLEAN : WsRecvError(c, fatal)
    \/ \E c \in Conns : WsSelect(c)

SpecBus == InitBus /\ [][NextBus]_vars

(***************************************************************************)
(* The normalizer taken alone: an estimator holding up to MaxNormSamples   *)
(* samples of any levels, and normalize_block called with blocks of any    *)
(* level.                                                                  *)
(***************************************************************************)
SampleSeqs ==
    UNION {[1..n -> {LevelSample(0, j) : j \in 0..MaxLevel}] : n \in 0..MaxNormSamples}

InitNorm ==
    /\ StoreInit
    /\ PollerIdle
    /\ RpcIdle
    /\ NoConns
    /\ NormIdle
    /\ NoQuery
    /\ CalcIdle
    /\ LocksIdle
    /\ samples \in SampleSeqs
    /\ max_samples = MaxNormSamples
    /\ window_duration = 0
    /\ now = 0

NextNorm == \E j \in 0..MaxLevel : NormalizeBlock(j)

SpecNorm == InitNorm /\ [][NextNorm]_vars

(***************************************************************************)
(* The store and its queries: consecutive blocks are added, and            *)
(* the window statistics and the recent blocks are asked for, with small   *)
(* second counts and with the second counts at the edges of the ranges.    *)
(***************************************************************************)
SecondsInputs ==
    (0..MaxSeconds) \cup
    {3 * DateTimeSpan, DURATION_MAX_SECS, DURATION_MAX_SECS + 1, I64_MAX + 1, U64_MAX}

InitQuery ==
    /\ StoreInit
    /\ PollerIdle
    /\ StatsUnused
    /\ RpcIdle
    /\ NoConns
    /\ NormIdle
    /\ NoQuery
    /\ CalcIdle
    /\ LocksIdle

NextQuery ==
    \/ \E n \in 0..MaxBlockNumber, kind \in BlockKinds :
          (blocks = <<>> \/ n = last_block + 1) /\ StoreAdd(n, kind)
    \/ \E seconds \in SecondsInputs, t \in 0..MaxUtcNow : HandleWindowStats(seconds, t)
    \/ \E count \in 0..(MAX_BLOCKS + 1) : HandleRecentBlocks(count)

SpecQuery == InitQuery /\ [][NextQuery]_vars

(***************************************************************************)
(* The calculator alone: process_block is called once.  The blocks of one  *)
(* transaction are of two families: in the first the gas, the gas used and *)
(* the input length vary (what the gas split and the DA size depend on),   *)
(* in the second the fields that the size codec reads.  A third family has *)
(* blocks of several transactions and receipts for some of them, a fourth  *)
(* long inputs and every transaction type.                                 *)
(* input_first is the first byte of the input, v the recovery value and    *)
(* r_len, s_len the numbers of significant bytes of r and s.               *)
(***************************************************************************)
MaxGasLevel == 6

GasValues == {0, 1, 10} \cup {10500 * g : g \in 1..MaxGasLevel}

InputLens == {0, 1, 4, 5, 55, 56}

TxOf(tx_type, has_to, input_len, input_first, gas, nonce, value, fee, access_list, r_len) ==
    [hash |-> 1, has_to |-> has_to, input_len |-> input_len, gas |-> gas,
     tx_type |-> tx_type, nonce |-> nonce, value |-> value,
     gas_price |-> IF tx_type = 2 THEN None ELSE fee,
     max_fee_per_gas |-> IF tx_type = 2 THEN fee ELSE None,
     max_priority_fee_per_gas |-> IF tx_type = 2 THEN 100 ELSE None,
     chain_id |-> IF tx_type = 0 THEN None ELSE 6342,
     access_list |-> IF tx_type \in {1, 2} THEN access_list ELSE <<>>,
     input_first |-> input_first, v |-> IF tx_type = 0 THEN 27 ELSE 1,
     r_len |-> r_len, s_len |-> 32]

GasSplitArgs ==
    {[called |-> TRUE,
      txs |-> <<TxOf(tx_type, TRUE, input_len, 0, gas, 3, 0, 1000000000, <<>>, 32)>>,
      receipts |-> IF gas_used = None THEN <<>>
                   ELSE <<[transaction_hash |-> 1, gas_used |-> gas_used]>>] :
        tx_type \in {0, 2, DEPOSIT_TX_TYPE}, input_len \in InputLens,
        gas \in GasValues, gas_used \in GasValues \cup {None}}

CodecArgs ==
    {[called |-> TRUE,
      txs |-> <<TxOf(tx_type, has_to, input_len, input_first, 21000, nonce, value, fee,
                     access_list, r_len)>>,
      receipts |-> <<>>] :
        tx_type \in {0, 1, 2}, has_to \in BOOLEAN, input_len \in InputLens,
        input_first \in {0, 128}, nonce \in {0, 127, 128}, value \in {0, 128, 1000000},
        fee \in {0, 1000000000}, access_list \in {<<>>, <<0>>, <<2>>, <<1, 1>>},
        r_len \in {31, 32}}

\* Blocks of up to MaxBlockTxs transactions with hashes 1, 2, ..., of gas
\* limit 50000 + hash, and receipts for some of them (and perhaps for a
\* hash that is not in the block), the receipts in the opposite order.
MaxBlockTxs == 2

RECURSIVE ReceiptsFor(_)
ReceiptsFor(hashes) ==
    IF hashes = {} THEN <<>>
    ELSE LET h == CHOOSE x \in hashes : \A y \in hashes : y <= x
         IN  <<[transaction_hash |-> h, gas_used |-> 30000 + h]>>
             \o ReceiptsFor(hashes \ {h})

BlockArgs ==
    {[called |-> TRUE,
      txs |-> [i \in 1..n |->
                  [TxOf(IF i = 1 THEN 0 ELSE 2, TRUE, 4 * i, 0, 50000 + i, 3, 0,
                        1000000000, <<>>, 32) EXCEPT !.hash = i]],
      receipts |-> ReceiptsFor(hashes)] :
        n \in 0..MaxBlockTxs, hashes \in SUBSET (1..(MaxBlockTxs + 1))}

\* Transactions of every type, 5 being a type the codec does not know, whose
\* input lengths lie around 56 and around the powers of 256.
PrefixLens == {55, 56, 57, 255, 256, 257, 65535, 65536, 65537, 16777215, 16777216}

LengthArgs ==
    {[called |-> TRUE,
      txs |-> <<TxOf(tx_type, has_to, input_len, 0, 21000, 3, 0, 1000000000,
                     access_list, 32)>>,
      receipts |-> <<>>] :
        tx_type \in {0, 1, 2, 5, DEPOSIT_TX_TYPE}, has_to \in BOOLEAN,
        input_len \in PrefixLens \cup {0, 1}, access_list \in {<<>>, <<8>>}}

InitCalc ==
    /\ StoreInit
    /\ PollerIdle
    /\ StatsUnused
    /\ RpcIdle
    /\ NoConns
    /\ NormIdle
    /\ NoQuery
    /\ LocksIdle
    /\ calc_args \in GasSplitArgs \cup CodecArgs \cup BlockArgs \cup LengthArgs
    /\ calc_result = [returned |-> FALSE]

NextCalc == Calculate

SpecCalc == InitCalc /\ [][NextCalc]_vars

(***************************************************************************)
(* The poller and the handlers of get_window_stats on the locks of the     *)
(* store: the poller adds consecutive blocks while the handlers read.      *)
(***************************************************************************)
InitLock ==
    /\ StoreInit
    /\ PollerIdle
    /\ StatsUnused
    /\ RpcIdle
    /\ NoConns
    /\ NormIdle
    /\ NoQuery
    /\ CalcIdle
    /\ LocksInit

NextLock ==
    \/ \E l \in Locks : LockGrant(l)
    \/ WHeadDone
    \/ WReadLast
    \/ \E n \in 0..MaxBlockNumber, kind \in BlockKinds :
          (blocks = <<>> \/ n = last_block + 1) /\ WFetchDone(n, kind)
    \/ WGotBlocks
    \/ WGotTransactions
    \/ WPushBlock
    \/ WPushTxs
    \/ WSetLast
    \/ WTrimReturn
    \/ \E again \in BOOLEAN : WSend(again)
    \/ \E r \in Readers :
          RCall(r) \/ RGotBlocks(r) \/ RReadBlocks(r) \/ RReadTxs(r) \/ RReturn(r)

SpecLock == InitLock /\ [][NextLock]_vars

(***************************************************************************)
(* The poller on a chain whose head comes to rest.  While the head moves   *)
(* the ticks are those of Spec, any head and any failure; from the moment  *)
(* the head stays at stable_head every call succeeds with a present block. *)
(* The interval of run() fires for ever and every call returns, so a step  *)
(* of the poller that can be taken is taken.                               *)
(***************************************************************************)
\* Between two ticks the head reaches the value it stays at.
HeadSettles(head) ==
    /\ stable_head = None
    /\ pc = "sleep"
    /\ stable_head' = head
    /\ UNCHANGED <<lockVars, calcVars, queryVars, normVars, storeVars, pollerVars, statsVars,
                   rpcVars, wsVars>>

MovingStep ==
    /\ stable_head = None
    /\ \/ PollFailed
       \/ \E head \in 0..MaxHead : PollOnce(head)
       \/ FetchBlock("empty")
       \/ FetchNotFound(TRUE)
       \/ FetchFailed("transport")
       \/ AddBlock
       \/ Send

StableStep ==
    /\ stable_head # None
    /\ \/ PollOnce(stable_head)
       \/ \E kind \in BlockKinds : FetchBlock(kind)
       \/ AddBlock
       \/ Send

NextLive ==
    \/ MovingStep
    \/ \E head \in 0..MaxHead : HeadSettles(head)
    \/ StableStep

SpecLive == Init /\ [][NextLive]_vars /\ WF_vars(StableStep)

(***************************************************************************)
(* Claims about the poller and the store.                                  *)
(***************************************************************************)
BlockNumbers(bs) == [i \in 1..Len(bs) |-> bs[i].block_number]

StrictlyIncreasing(s) == \A i \in 1..(Len(s) - 1) : s[i] < s[i + 1]

\* C1: the block numbers the poller passes to add_block are strictly
\* increasing: the retained block records, the latest of them, never hold a
\* number twice or a number after a higher one.
C1_InsertedStrictlyIncreasing == StrictlyIncreasing(BlockNumbers(blocks))

\* C2: for the store alone, last_block_number never decreases from one
\* add_block call to the next.
C2_LastBlockNeverDecreases == [][last_block' >= last_block]_vars

\* C3: every block the poller inserts in a tick has a number of at most
\* head - confirmation_blocks, head being that tick's eth_blockNumber.
C3_OutsideConfirmationBand ==
    pc = "send" => Last(blocks).block_number + confirmation_blocks <= latest

TxsOfBlock(n) == SelectSeq(transactions, LAMBDA t : t.block_number = n)

MetricNames == {"total_gas", "compute_gas", "storage_gas", "tx_size", "da_size",
                "data_size", "kv_updates", "state_growth"}

BlockConsistent(B) ==
    LET recs == TxsOfBlock(B.block_number)
    IN  /\ B.tx_count = Len(recs)
        /\ \A m \in MetricNames : B[m] = SeqSum([i \in 1..Len(recs) |-> recs[i][m]])

\* C4: each retained block's tx_count is the number of retained transaction
\* records of its block number, and each of its eight sums is the sum over
\* those records.
C4_BlockTxConsistency == \A i \in 1..Len(blocks) : BlockConsistent(blocks[i])

\* C5: after every add_block call the store holds at most MAX_BLOCKS block
\* records, and what it holds is the old records followed by the new one,
\* less the oldest (front) ones.
C5_BoundedBlocks ==
    /\ Len(blocks) <= MAX_BLOCKS
    /\ [][/\ Len(blocks') <= MAX_BLOCKS
          /\ Len(blocks') >= 1
          /\ blocks' = LastN(Append(blocks, Last(blocks')), MAX_BLOCKS)
          /\ evicted' \o blocks' = Append(blocks, Last(blocks'))]_vars

\* C5 witness: a call that evicted the front record of a full store.
C5_Witness == Len(blocks) = MAX_BLOCKS /\ evicted # <<>>

\* C7: once block b was reported absent, the poller does not advance past
\* b: no block above b is in the store before b is.
C7_NotFoundDoesNotAdvance ==
    not_found # None => \A i \in 1..Len(blocks) : blocks[i].block_number <= not_found

\* C8: after a malformed response for block b the poller has advanced past
\* b: it does not request b again.
C8_MalformedAdvances ==
    (fetch_failure.kind = "malformed" /\ pc = "loop") => block_num > fetch_failure.n

\* C9: after a transport failure of the fetch of block b or of its receipts,
\* b is neither inserted nor published in that tick, and the first block
\* the next tick processes is b.
C9_TransportFailureRetries ==
    fetch_failure.kind \in {"transport", "receipts"} =>
        /\ pc \in {"sleep", "loop"}
        /\ pc = "loop" => block_num = fetch_failure.n

C6_SampleCountBounded == sample_count <= max_samples

\* C26: at every moment, not only right after an insertion, every sample
\* the estimator retains is at most window_duration old (timestamp >= now -
\* window_duration), whatever timestamps add_sample was given and however
\* much time passed without a new sample, so compute_stats never uses a
\* sample older than the window.
C26_SamplesWithinWindow ==
    \A i \in 1..Len(samples) : samples[i].timestamp >= now - window_duration


(***************************************************************************)
(* Claims about the RPC adapter.                                           *)
(***************************************************************************)
\* The failures the adapter is to surface at once: HTTP 4xx, a body that is
\* not JSON, a JSON-RPC error object.
NonTransient(e) ==
    /\ ~e.ok
    /\ \/ e.err \in {"parse", "rpc"}
       \/ e.err = "http" /\ e.status >= 400 /\ e.status < 500

Returned == rpc_pc = "idle" /\ rpc_result # RpcNone

\* C11: an attempt that fails with a non-transient error is the last request
\* of its rpc_call, and no backoff delay is waited after it.
C11_NonTransientNotRetried ==
    \A i \in 1..Len(rpc_outcomes) :
        NonTransient(rpc_outcomes[i]) =>
            /\ i = Len(rpc_outcomes)
            /\ rpc_pc = "idle"
            /\ Len(rpc_delays) < i

\* The number of failed attempts among the outcomes.
Failures == Cardinality({i \in 1..Len(rpc_outcomes) : ~rpc_outcomes[i].ok})

\* C12: an rpc_call makes at most three requests, returns on the first
\* success, has waited 100 ms after the first failure and 200 ms after the
\* second and nothing after the third, returns the error of the last attempt
\* when all three fail, and always returns.
C12_AtMostThreeAttempts ==
    /\ [](/\ Len(rpc_outcomes) <= 3
          /\ \A i \in 1..(Len(rpc_outcomes) - 1) : ~rpc_outcomes[i].ok
          /\ rpc_delays = SubSeq(<<100, 200>>, 1, Min(Failures, 2))
          /\ Returned =>
                IF rpc_result.ok
                THEN Last(rpc_outcomes).ok
                ELSE Len(rpc_outcomes) = 3 /\ rpc_result = Last(rpc_outcomes)
          /\ (rpc_pc = "idle" /\ rpc_outcomes # <<>>) => Returned)
    /\ (rpc_pc # "idle") ~> Returned

C12_Witness ==
    /\ Returned
    /\ ~rpc_result.ok
    /\ rpc_delays = <<100, 200>>
    /\ rpc_outcomes[1].err = "timeout"
    /\ rpc_outcomes[2].err = "http"
    /\ rpc_outcomes[3].err = "connect"


(***************************************************************************)
(* Claims about the broadcast channel and the stream connections.          *)
(***************************************************************************)
\* C13: the publish step is always possible for the poller at "send",
\* whatever the Receivers are and however far they lag, and when it is taken
\* the block just inserted is the newest of the store, no error is raised
\* and the loop goes on to the next block number.
C13_PublishNeverBlocks ==
    /\ [](pc = "send" => ENABLED Send)
    /\ [][(pc = "send" /\ pc' # "send") =>
             /\ Last(blocks') = pending[1].block
             /\ pending' = <<>>
             /\ block_num' = block_num + 1
             /\ pc' \in {"loop", "sleep"}
             /\ poll_result' # "err"
             /\ fetch_failure' = NoFailure]_vars

\* The poller went on past a publish step taken while a Receiver was more
\* than the channel's capacity behind.
C13_Witness ==
    /\ pc \in {"loop", "sleep"}
    /\ blocks # <<>>
    /\ \E c \in Conns :
          /\ block_rx[c] # None
          /\ Len(bus_log) - block_rx[c] > CHANNEL_CAPACITY + 1
          /\ Last(bus_log).block = Last(blocks)


\* The step at which connection c's forwarder learns that it lagged.
LagStep(c) == lag_seen'[c] /\ ~lag_seen[c]

\* C14 as stated: the forwarder that learns its buffer overflowed goes on,
\* reading from the oldest event the channel still has.
C14_LaggedSubscriberContinues ==
    [][\A c \in Conns :
          LagStep(c) =>
              /\ send_task'[c] = "running"
              /\ block_rx'[c] = Len(bus_log) - CHANNEL_CAPACITY]_vars

\* C14, amended: a forwarder that learns its buffer overflowed ends there
\* and drops its subscription, and the connection is sent no event from then
\* on, the newer events of the channel included.
C14_LaggedSubscriberStops ==
    /\ [](\A c \in Conns : lag_seen[c] => (send_task[c] = "done" /\ block_rx[c] = None))
    /\ [][\A c \in Conns : lag_seen'[c] => delivered'[c] = delivered[c]]_vars

\* A subscriber that was sent an event, then overflowed, and was not sent
\* the newer events published since.
C14_Witness ==
    \E c \in Conns :
        /\ lag_seen[c]
        /\ delivered[c] # <<>>
        /\ Len(bus_log) > Last(delivered[c]).seq + CHANNEL_CAPACITY

\* Both halves of the socket of connection c are dropped.
ConnectionClosed(c) == send_task[c] = "done" /\ recv_task[c] = "done"

\* C15: once the handler of a connection whose forwarder lagged has
\* returned, the forwarder has stopped and the connection is closed.
C15_LaggedStreamClosed ==
    \A c \in Conns : (lag_seen[c] /\ ws_handler[c] = "returned") => ConnectionClosed(c)

\* C16: what a connection was sent is, in publication order and without
\* repetition, a part of the events published after it subscribed.
C16_DeliveredIsOrderedSubsequence ==
    \A c \in Conns :
        LET d == delivered[c]
        IN  \A i \in 1..Len(d) :
                /\ d[i].seq > sub_pos[c]
                /\ d[i].seq <= Len(bus_log)
                /\ d[i].event = bus_log[d[i].seq]
                /\ i < Len(d) => d[i].seq < d[i + 1].seq

\* A connection made after events were published that was sent two events.
C16_Witness ==
    \E c \in Conns : sub_pos[c] > 0 /\ Len(delivered[c]) >= 2

\* C17: when either task of a connection has ended and the handler has
\* returned, the other task is not running, and from the end of either task
\* on no event is sent on the connection.
C17_EitherTaskEndsConnection ==
    /\ [](\A c \in Conns :
             ws_handler[c] = "returned" =>
                 (send_task[c] # "running" /\ recv_task[c] # "running"))
    /\ [][\A c \in Conns :
             (send_task[c] = "done" \/ recv_task[c] = "done") =>
                 Len(delivered'[c]) <= Len(delivered[c])]_vars


(***************************************************************************)
(* Claims about the normalizer.  Scores and percentages are in             *)
(* thousandths: 1.0 is 1000 and 100 is 100000.                             *)
(***************************************************************************)
Abs(x) == IF x < 0 THEN 0 - x ELSE x

\* C18: whatever the statistics, a value above half of its limit gets a
\* score of at least its utilization percentage.
C18_CapacityFloor ==
    normalized # <<>> =>
        \A m \in Metrics :
            2 * normalized[m].raw > normalized[m].limit =>
                normalized[m].score >= normalized[m].utilization_pct

\* C19 as stated: with a non-zero IQR the median scores within 1.0 of zero.
C19_MedianScoresNearZero ==
    normalized # <<>> =>
        \A m \in Metrics :
            (compute_stats[m].iqr > 0 /\ normalized[m].raw = compute_stats[m].median) =>
                Abs(normalized[m].score) < 1000

\* C19, amended: with a non-zero IQR the median scores 0 when it is at most
\* half of the limit, and its utilization percentage, capped at 100, when it
\* is more.
C19_MedianScore ==
    normalized # <<>> =>
        \A m \in Metrics :
            (compute_stats[m].iqr > 0 /\ normalized[m].raw = compute_stats[m].median) =>
                normalized[m].score =
                    IF 2 * normalized[m].raw > normalized[m].limit
                    THEN Min(normalized[m].utilization_pct, 100000)
                    ELSE 0

\* The median of samples with a spread, above half of the limit, normalized.
C19_Witness ==
    /\ normalized # <<>>
    /\ \E m \in Metrics :
          /\ compute_stats[m].iqr > 0
          /\ normalized[m].raw = compute_stats[m].median
          /\ 2 * normalized[m].raw > normalized[m].limit
          /\ normalized[m].score >= 50000

\* C20: every score is within [-100, +100], every utilization percentage is
\* at least 0, every limit divided by is non-zero, and without samples or
\* without spread the score is the fallback's, not the sigmoid's.
C20_ScoreInRange ==
    normalized # <<>> =>
        \A m \in Metrics :
            /\ normalized[m].score >= 0 - 100000
            /\ normalized[m].score <= 100000
            /\ normalized[m].utilization_pct >= 0
            /\ normalized[m].limit > 0
            /\ (compute_stats[m].count = 0 \/ compute_stats[m].iqr = 0) =>
                   normalized[m].score =
                       clamp(2 * normalized[m].utilization_pct - 100000, 0 - 100000, 100000)

\* A value above its limit normalized against samples without spread.
C20_Witness ==
    /\ normalized # <<>>
    /\ \E m \in Metrics :
          /\ compute_stats[m].count > 0
          /\ compute_stats[m].iqr = 0
          /\ normalized[m].raw > normalized[m].limit
          /\ normalized[m].score = 100000


(***************************************************************************)
(* Claims about the percentiles.                                           *)
(***************************************************************************)
\* The largest number of samples for which the percentile indices are
\* checked.
MaxCount == 200

\* C21: with at least one sample, compute_stats gives for each metric
\* min <= p10 <= p25 <= median <= p75 <= p90 <= max, iqr = p75 - p25 and
\* count = the number of samples; and for every n >= 1 each percentile index
\* is an index of the n sorted values.
C21_PercentilesOrdered ==
    /\ samples # <<>> =>
          \A m \in Metrics :
              LET st == compute_stats[m]
              IN  /\ st.min <= st.p10 /\ st.p10 <= st.p25 /\ st.p25 <= st.median
                  /\ st.median <= st.p75 /\ st.p75 <= st.p90 /\ st.p90 <= st.max
                  /\ st.iqr = st.p75 - st.p25
                  /\ st.count = sample_count
                  /\ \A i \in 1..Len(samples) :
                        st.min <= samples[i][m] /\ samples[i][m] <= st.max
    /\ \A n \in 1..MaxCount, p \in {10, 25, 50, 75, 90} :
          percentile_index(n, p) >= 0 /\ percentile_index(n, p) < n

\* normalize_block has computed the statistics of a full estimator whose
\* samples did not arrive in order and have a spread.
C21_Witness ==
    /\ normalized # <<>>
    /\ Len(samples) = MaxNormSamples
    /\ samples[1].total_gas > samples[2].total_gas
    /\ compute_stats.total_gas.iqr > 0
    /\ compute_stats.total_gas.min < compute_stats.total_gas.median

Handled(endpoint) ==
    /\ <<http_request, http_response>>' # <<http_request, http_response>>
    /\ http_request'.endpoint = endpoint

\* C27: get_recent_blocks(k) returns exactly min(k, number of retained
\* blocks) records, the most recently added ones, most recent first, and
\* leaves the store unchanged.
C27_RecentBlocksNewestFirst ==
    [][Handled("recent") =>
          LET k == http_request'.count
              body == http_response'.body
          IN  /\ http_response'.status = 200
              /\ Len(body) = Min(k, Len(blocks))
              /\ \A i \in 1..Len(body) : body[i] = blocks[Len(blocks) + 1 - i]
              /\ UNCHANGED storeVars]_vars

C27_Witness ==
    /\ http_request.endpoint = "recent"
    /\ Len(blocks) = MAX_BLOCKS
    /\ http_request.count = Len(blocks) - 1
    /\ Len(http_response.body) = Len(blocks) - 1
    /\ http_response.body[1] = Last(blocks)
    /\ http_response.body[1] # blocks[1]

\* C28: the window-stats query returns a stats record with status 200 for
\* every seconds value of the u64 range; no seconds value makes the
\* handler fail.
C28_WindowStatsAlwaysSucceeds ==
    http_request.endpoint = "window" => http_response.status = 200

(***************************************************************************)
(* Claims about the calculator and the size codec.                         *)
(***************************************************************************)
\* C23: in every transaction record the calculator produces, whatever the
\* total gas and the input length, storage_gas + compute_gas = total_gas,
\* compute_gas <= total_gas and neither component is negative.
C23_GasSplitAddsUp ==
    calc_result.returned =>
        /\ \A i \in 1..Len(calc_result.txs) :
              LET rec == calc_result.txs[i]
                  gas_used == receipt_lookup(calc_args.receipts, calc_args.txs[i].hash)
              IN  /\ rec.total_gas
                         = (IF gas_used = None THEN calc_args.txs[i].gas ELSE gas_used)
                  /\ rec.storage_gas + rec.compute_gas = rec.total_gas
                  /\ rec.compute_gas <= rec.total_gas
                  /\ rec.compute_gas >= 0
                  /\ rec.storage_gas >= 0
        /\ calc_result.block.storage_gas + calc_result.block.compute_gas
               = calc_result.block.total_gas

C23_Witness ==
    /\ calc_result.returned
    /\ Len(calc_result.txs) = 1
    /\ calc_args.receipts # <<>>
    /\ calc_args.txs[1].gas > calc_result.txs[1].total_gas
    /\ calc_args.txs[1].input_len > 4
    /\ calc_result.txs[1].total_gas = 21000
    /\ calc_result.txs[1].compute_gas = 14699
    /\ calc_result.txs[1].storage_gas = 6301

\* C24: for every deposit transaction (type 126), whatever its input, the
\* calculator records da_size = 0 while tx_size is the full encoded size,
\* the 1-byte envelope and the 100-byte deposit overhead included; for
\* every other transaction da_size is the compressed length of the DA
\* input and is not forced to 0.
C24_DepositsExemptFromDa ==
    calc_result.returned =>
      \A i \in 1..Len(calc_result.txs) :
        LET tx == calc_args.txs[i]
            rec == calc_result.txs[i]
            fields == 65 + rlp_uint_size(tx.nonce) + rlp_uint_size(tx.gas)
                      + (IF tx.has_to THEN 21 ELSE 1) + rlp_u256_size(tx.value)
                      + rlp_length_prefix_size(tx.input_len) + tx.input_len
                      + (IF tx.chain_id # None THEN rlp_uint_size(tx.chain_id) ELSE 0)
                      + 3
        IN  /\ rec.tx_size = encoded_size(tx)
            /\ tx.tx_type = DEPOSIT_TX_TYPE =>
                  /\ rec.da_size = 0
                  /\ rec.tx_size = fields + 1 + 100
                  /\ Len(calc_result.txs) = 1 => calc_result.block.da_size = 0
            /\ tx.tx_type # DEPOSIT_TX_TYPE =>
                  /\ rec.da_size = flz_compress_len(to_bytes_for_da(tx))
                  /\ rec.da_size > 0

C24_Witness ==
    /\ calc_result.returned
    /\ Len(calc_result.txs) = 1
    /\ calc_args.txs[1].tx_type = DEPOSIT_TX_TYPE
    /\ calc_args.txs[1].input_len = 56
    /\ calc_result.txs[1].da_size = 0
    /\ calc_result.txs[1].tx_size > 56 + 65 + 100

\* The reference: the length of the canonical EIP-2718 encoding, by the
\* rules of RLP.  An integer is its big-endian bytes without leading zeros
\* behind a length byte, or the byte itself below 128; a byte string of one
\* byte below 128 is that byte, a longer one follows a prefix of 1 byte
\* (under 56 bytes) or of 1 byte and the length's bytes; a list is its
\* items behind the same prefix.
ByteLen(v) == (BitLen(v) + 7) \div 8

RlpInt(v) == IF v < 128 THEN 1 ELSE 1 + ByteLen(v)

RlpWithPrefix(len) == IF len < 56 THEN 1 + len ELSE 1 + ByteLen(len) + len

RlpString(len, first) == IF len = 1 /\ first < 128 THEN 1 ELSE RlpWithPrefix(len)

RlpAccessList(access_list) ==
    RlpWithPrefix(SeqSum([i \in 1..Len(access_list) |->
                             RlpWithPrefix(21 + RlpWithPrefix(33 * access_list[i]))]))

ReferenceEncodedLen(tx) ==
    LET common == RlpInt(tx.nonce) + RlpInt(tx.gas) + (IF tx.has_to THEN 21 ELSE 1)
                  + RlpInt(tx.value) + RlpString(tx.input_len, tx.input_first)
                  + RlpInt(tx.v) + (1 + tx.r_len) + (1 + tx.s_len)
    IN  CASE tx.tx_type = 0 -> RlpWithPrefix(common + RlpInt(tx.gas_price))
          [] tx.tx_type = 1 ->
                1 + RlpWithPrefix(common + RlpInt(tx.chain_id) + RlpInt(tx.gas_price)
                                  + RlpAccessList(tx.access_list))
          [] tx.tx_type = 2 ->
                1 + RlpWithPrefix(common + RlpInt(tx.chain_id)
                                  + RlpInt(tx.max_priority_fee_per_gas)
                                  + RlpInt(tx.max_fee_per_gas)
                                  + RlpAccessList(tx.access_list))

\* C25: for every transaction of type 0, 1 or 2, over bounded nonce, gas,
\* value, fee, chain id, input and access list, encoded_size equals the
\* byte length of the canonical EIP-2718 RLP encoding of the transaction.
C25_EncodedSizeIsCanonical ==
    calc_result.returned =>
        \A i \in 1..Len(calc_result.txs) :
            calc_args.txs[i].tx_type \in {0, 1, 2} =>
                /\ calc_result.txs[i].tx_size = encoded_size(calc_args.txs[i])
                /\ encoded_size(calc_args.txs[i]) = ReferenceEncodedLen(calc_args.txs[i])

(***************************************************************************)
(* Claims about the ticks of the poller.                                   *)
(***************************************************************************)
\* A step in which poll_once got the head and chose its start.
TickStep ==
    /\ pc = "sleep"
    /\ \/ pc' = "loop"
       \/ /\ poll_result' = "ok"
          /\ <<latest, start_block, end_block, block_num, poll_result, first_tick_done>>'
                 # <<latest, start_block, end_block, block_num, poll_result, first_tick_done>>

\* C29: the poller computes start from the head, start = max(0, head -
\* confirmation - lookback), only on its first tick; on every later tick,
\* whether or not the first tick stored anything, start is the next
\* unprocessed block (a number from the last tick's start up to where it
\* stopped, or the one after the last stored block) and is not recomputed
\* from the head.
C29_StartFromHeadOnlyOnFirstTick ==
    [][TickStep =>
          IF first_tick_done
          THEN start_block' \in (start_block..block_num) \cup {last_block_number + 1}
          ELSE start_block' = saturating_sub(TargetOf(latest'), START_LOOKBACK)]_vars

\* C30: in a tick with start <= target the poller processes the consecutive
\* numbers start, start + 1, ... in ascending order, at most min(cap,
\* target - start + 1) of them and none above target; in a tick with start >
\* target it processes no block and leaves the store unchanged.
C30_TickProcessesBoundedRange ==
    [][/\ TickStep =>
             LET target == TargetOf(latest')
             IN  /\ block_num' = start_block'
                 /\ IF start_block' <= target
                    THEN /\ pc' = "loop"
                         /\ end_block' - start_block'
                                = Min(MAX_BLOCKS_PER_POLL, target - start_block' + 1)
                         /\ end_block' - 1 <= target
                    ELSE /\ pc' = "sleep"
                         /\ end_block' = start_block'
                 /\ UNCHANGED storeVars
       /\ pc \in {"loop", "add", "send"} =>
             /\ start_block <= block_num /\ block_num < end_block
             /\ block_num <= TargetOf(latest)
             /\ UNCHANGED <<start_block, end_block, latest>>
             /\ block_num' \in {block_num, block_num + 1}
             /\ pc' \in {"loop", "add", "send"} => block_num' <= end_block - 1
             /\ pc' = "add" => pending'[1].block.block_number = block_num
             /\ blocks' # blocks => Last(blocks').block_number = block_num
       /\ pc = "sleep" => UNCHANGED storeVars]_vars

C30_Witness ==
    /\ pc = "send"
    /\ block_num = start_block + 1
    /\ end_block = start_block + MAX_BLOCKS_PER_POLL
    /\ end_block - 1 < TargetOf(latest)
    /\ Len(blocks) >= 2
    /\ Last(blocks).block_number = block_num
    /\ blocks[Len(blocks) - 1].block_number = start_block

(***************************************************************************)
(* Further claims about the store and the poller.                          *)
(***************************************************************************)
\* The block number of each transaction record the blocks bs came with, in
\* order: the number of each block, tx_count times.
RECURSIVE OwnersOf(_)
OwnersOf(bs) ==
    IF bs = <<>> THEN <<>>
    ELSE [i \in 1..Head(bs).tx_count |-> Head(bs).block_number] \o OwnersOf(Tail(bs))

\* C31: when add_block evicts a block it evicts every transaction record of
\* that block in the same call and no record of a block that stays: after
\* any sequence of add_block calls the retained transaction records are
\* exactly those of the retained blocks, block by block.
C31_TxEvictedWithTheirBlock ==
    [i \in 1..Len(transactions) |-> transactions[i].block_number] = OwnersOf(blocks)

\* C32: a tick in which the RPC is down (eth_blockNumber fails, or the
\* fetch of the first block of the tick fails) leaves the store's blocks,
\* transactions and last block unchanged and publishes no event, so that
\* /health keeps reporting the previous last_block.  The first fetch of a
\* tick is the one made where the tick's choice of start left the poller.
C32_RpcDownTickLeavesStore ==
    [][/\ (pc = "sleep" /\ pc' = "sleep" /\ poll_result' = "err") =>
             /\ UNCHANGED <<storeVars, published, bus_log>>
             /\ health' = health
       /\ TickStep => UNCHANGED <<storeVars, published, bus_log>>
       /\ (pc' = "loop" /\ block_num' = start_block' /\ pc # "loop") => TickStep
       /\ (pc = "loop" /\ block_num = start_block /\ pc' = "sleep" /\ poll_result' = "err") =>
             /\ UNCHANGED <<storeVars, published, bus_log>>
             /\ health' = health]_vars

C32_Witness ==
    /\ pc = "sleep"
    /\ poll_result = "err"
    /\ fetch_failure.kind = "transport"
    /\ fetch_failure.n = start_block
    /\ block_num = start_block
    /\ blocks # <<>>
    /\ health.last_block > 0
    /\ health.last_block = start_block - 1

(***************************************************************************)
(* Claims about the locks of the store.                                    *)
(***************************************************************************)
\* The locks task t holds or waits for.
LocksOf(t) ==
    {l \in Locks :
        \/ lock_held[l].writer = t
        \/ t \in lock_held[l].readers
        \/ \E i \in 1..Len(lock_queue[l]) : lock_queue[l][i].task = t}

\* C33: the poller holds no lock of the store while an RPC request is in
\* flight: the fetches for a block are complete before add_block asks for
\* the locks, and the locks are released before the next RPC call.
C33_NoLockAcrossRpc ==
    /\ w_pc \in {"head_rpc", "fetch_rpc"} => LocksOf(Poller) = {}
    /\ LocksOf(Poller) \cap {"blocks", "transactions"} # {} =>
          /\ w_args # <<>>
          /\ w_pc \in {"wait_blocks", "wait_transactions", "wait_last_block",
                       "pushed_block", "pushed_txs", "set_last"}
    /\ w_pc = "send" => LocksOf(Poller) = {}

C33_Witness ==
    /\ w_pc = "fetch_rpc"
    /\ Len(blocks) = MAX_BLOCKS
    /\ evicted # <<>>
    /\ LocksOf(Poller) = {}
    /\ \E r \in Readers : r_pc[r] = "read_both"

\* The poller is between the first and the last write of an add_block call.
MidAddBlock == w_pc \in {"pushed_block", "pushed_txs", "set_last"}

\* The steps that need no new call: a grant, or a step of a task that has
\* what it waited for.
LockProgress ==
    \/ \E l \in Locks : LockGrant(l)
    \/ WReadLast \/ WGotBlocks \/ WGotTransactions
    \/ WPushBlock \/ WPushTxs \/ WSetLast \/ WTrimReturn
    \/ \E r \in Readers : RGotBlocks(r) \/ RReadBlocks(r) \/ RReadTxs(r) \/ RReturn(r)

\* C38: under any interleaving of the poller's add_block with API reads, a
\* get_window_stats call never reads the blocks of one store state and the
\* transactions of another, nor a state in the middle of an add_block: what
\* it has read is the store as it is, outside an add_block, until it
\* returns; and a task that waits for a lock is never stuck for good.
C38_ReadsAreAtomic ==
    /\ \A r \in Readers :
          /\ r_pc[r] = "read_blocks" => r_snap[r] = <<blocks>> /\ ~MidAddBlock
          /\ r_pc[r] = "read_both" => r_snap[r] = <<blocks, transactions>> /\ ~MidAddBlock
    /\ (\E t \in {Poller} \cup Readers : LocksOf(t) # {}) => ENABLED LockProgress

C38_Witness ==
    /\ \E r \in Readers :
          /\ r_pc[r] = "read_both"
          /\ Len(r_snap[r][1]) = MAX_BLOCKS
          /\ r_snap[r][2] # <<>>
    /\ w_pc = "wait_blocks"
    /\ lock_queue["blocks"] # <<>>
    /\ evicted # <<>>

(***************************************************************************)
(* Further claims about the estimator and the calculator.                  *)
(***************************************************************************)
\* Whether s is what is left of t when some of its first elements are gone.
IsSuffix(s, t) == Len(s) <= Len(t) /\ s = SubSeq(t, Len(t) - Len(s) + 1, Len(t))

C35_OneRecordPerTransaction ==
    calc_result.returned =>
        LET txs == calc_args.txs
            receipts == calc_args.receipts
            recs == calc_result.txs
        IN  /\ Len(recs) = Len(txs)
            /\ calc_result.block.tx_count = Len(recs)
            /\ \A i \in 1..Len(txs) :
                  LET mine == {j \in 1..Len(receipts) :
                                  receipts[j].transaction_hash = txs[i].hash}
                  IN  /\ recs[i].tx_hash = txs[i].hash
                      /\ mine = {} => recs[i].total_gas = txs[i].gas
                      /\ \A j \in mine : recs[i].total_gas = receipts[j].gas_used

C35_Witness ==
    /\ calc_result.returned
    /\ Len(calc_args.txs) = 2
    /\ Len(calc_args.receipts) = 1
    /\ calc_args.receipts[1].transaction_hash = 2
    /\ calc_result.txs[1].total_gas = calc_args.txs[1].gas
    /\ calc_result.txs[2].total_gas = calc_args.receipts[1].gas_used
    /\ calc_result.block.tx_count = 2

\* The size the codec gives a legacy transaction when the prefix of its
\* input takes the given number of bytes.
LegacySizeGiven(tx, prefix) ==
    65 + rlp_uint_size(tx.nonce) + rlp_uint_size(tx.gas) + (IF tx.has_to THEN 21 ELSE 1)
    + rlp_u256_size(tx.value) + prefix + tx.input_len
    + rlp_u128_size(unwrap_or(tx.gas_price, 0)) + 3

RECURSIVE CeilLog256(_)
CeilLog256(v) == IF v <= 1 THEN 0 ELSE 1 + CeilLog256((v + 255) \div 256)

RECURSIVE FloorLog256(_)
FloorLog256(v) == IF v < 256 THEN 0 ELSE 1 + FloorLog256(v \div 256)

\* C36 as stated: the length prefix the codec counts for an input of
\* length len is 1 below 56 and 1 + ceil(log256(len)) from 56 on, the
\* exact powers of 256 included.
C36_PrefixIsCeilLog256 ==
    calc_result.returned =>
        \A i \in 1..Len(calc_result.txs) :
            LET tx == calc_args.txs[i]
            IN  tx.tx_type = 0 =>
                    calc_result.txs[i].tx_size
                        = LegacySizeGiven(tx, IF tx.input_len < 56 THEN 1
                                              ELSE 1 + CeilLog256(tx.input_len))

\* C36: the length prefix the codec counts for an input of length len is 1
\* below 56 and, from 56 on, 1 + the number of bytes of len, which is
\* 1 + floor(log256(len)) + 1: 2 up to 255, 3 from 256, 4 from 65536.
C36_PrefixIsByteCount ==
    calc_result.returned =>
        \A i \in 1..Len(calc_result.txs) :
            LET tx == calc_args.txs[i]
            IN  tx.tx_type = 0 =>
                    calc_result.txs[i].tx_size
                        = LegacySizeGiven(tx, IF tx.input_len < 56 THEN 1
                                              ELSE 1 + FloorLog256(tx.input_len) + 1)

C36_Witness ==
    /\ calc_result.returned
    /\ Len(calc_result.txs) = 1
    /\ calc_args.txs[1].tx_type = 0
    /\ calc_args.txs[1].input_len = 65536
    /\ calc_result.txs[1].tx_size = LegacySizeGiven(calc_args.txs[1], 4)

\* C37: for every transaction of every type (0, 1, 2, 126 and unknown) and
\* every input length, the DA input that to_bytes_for_da builds has exactly
\* encoded_size(tx) bytes: type byte, input and 65 signature bytes never
\* exceed encoded_size, so the padding reaches it and nothing is cut; the
\* da_size of every transaction that is no deposit is the compressed length
\* of that many bytes.
C37_DaInputHasEncodedSize ==
    calc_result.returned =>
        \A i \in 1..Len(calc_result.txs) :
            LET tx == calc_args.txs[i]
            IN  /\ (IF tx.tx_type > 0 THEN 1 ELSE 0) + tx.input_len + 65 <= encoded_size(tx)
                /\ to_bytes_for_da(tx) = encoded_size(tx)
                /\ calc_result.txs[i].tx_size = encoded_size(tx)
                /\ tx.tx_type # DEPOSIT_TX_TYPE =>
                      calc_result.txs[i].da_size
                          = flz_compress_len(calc_result.txs[i].tx_size)

C37_Witness ==
    /\ calc_result.returned
    /\ Len(calc_result.txs) = 1
    /\ calc_args.txs[1].tx_type = 5
    /\ calc_args.txs[1].input_len = 65536
    /\ calc_result.txs[1].tx_size > 65536 + 66
    /\ calc_result.txs[1].da_size = flz_compress_len(calc_result.txs[1].tx_size)

\* C39: when the event of a block B is published B is in the store: from
\* then on last_block_number >= B.block_number, and as long as B is
\* retained get_block(B.block_number) returns B.
C39_PublishedBlockIsStored ==
    \A i \in 1..Len(published) :
        LET B == published[i].block
        IN  /\ last_block_number >= B.block_number
            /\ (\E j \in 1..Len(blocks) : blocks[j] = B) =>
                  get_block(B.block_number) = <<B>>


\* C40 as stated: once the head stays at H >= confirmation_blocks and every
\* call succeeds, last_block_number eventually equals
\* H - confirmation_blocks.
C40_EventuallyAtTarget ==
    (stable_head # None /\ stable_head >= confirmation_blocks)
        ~> (last_block_number = stable_head - confirmation_blocks)

\* C40: once the head stays at H >= confirmation_blocks, every call
\* succeeds and the poller has not gone beyond H - confirmation_blocks
\* (the head was never further on), last_block_number eventually equals
\* H - confirmation_blocks, also when that takes more than one tick of
\* MAX_BLOCKS_PER_POLL blocks.
C40_EventuallyAtTargetFromBelow ==
    (/\ stable_head # None
     /\ stable_head >= confirmation_blocks
     /\ last_block_number <= stable_head - confirmation_blocks)
        ~> (last_block_number = stable_head - confirmation_blocks)

C40_Witness ==
    /\ stable_head = MaxHead
    /\ confirmation_blocks = 0
    /\ pc = "send"
    /\ blocks # <<>>
    /\ Last(blocks).block_number = stable_head
    /\ last_block_number = stable_head
    /\ start_block = stable_head

====
